---- MODULE Spec2Model ----
(***************************************************************************)
(* JavaCodeMiner: the sequence-diagram generator                           *)
(* (src/analyzers/sequence_diagram.py) and the class-diagram generator     *)
(* (src/analyzers/uml_generator.py) as state machines.                     *)
(*                                                                         *)
(* Python values are modelled as follows.  A str is a TLA+ string and an   *)
(* f-string is string concatenation.  A list is a sequence.  A javalang    *)
(* node is a record whose field "type" is the node's class name and whose  *)
(* other fields are the attributes of that class, so hasattr(n, "a") is    *)
(* "a" \in DOMAIN n.  None is the string NoneValue, which is no Java       *)
(* identifier.                                                             *)
(***************************************************************************)
EXTENDS Integers, Sequences, FiniteSets, TLC

VARIABLES
    code,           \* what javalang.parse.parse(code) yields for the request
    method_name,    \* the requested method name
    interactions,   \* self.interactions
    current_class,  \* self.current_class
    method_node,    \* the node last handed to _analyze_method_body
    diagram,        \* the list of lines built by _generate_sequence_diagram
    plantuml_runs,  \* renderer invocations made by the last request
    result,         \* how the last operation ended
    remembered,     \* a (request, text) pair some request returned
    classes,        \* the descriptor list of the last generate_class_diagram
    uml_code,       \* the list of lines built by generate_class_diagram
    generators,     \* the attributes of each SequenceDiagramGenerator made
    threads,        \* each thread's place in analyze_method_calls and its locals
    batch,          \* the file loop of app.py over one uploaded project
    table_usages    \* self.table_usages of the project's LegacyTableAnalyzer

vars == <<code, method_name, interactions, current_class, method_node,
          diagram, plantuml_runs, result, remembered, classes, uml_code,
          generators, threads, batch, table_usages>>

NoneValue == "<None>"

\* No project has been uploaded.
NoBatch ==
    [started |-> FALSE, files |-> <<>>, next |-> 1, has_string_class |-> FALSE,
     printed |-> <<>>, halted |-> FALSE]

----------------------------------------------------------------------------
(* Bounds of the model.                                                    *)

MaxDecls == 5
MaxStmts == 2
MaxArgs == 2
MaxEvents == 2
MaxSection == 2
MaxClasses == 3

----------------------------------------------------------------------------
(* Generic helpers.                                                        *)

SeqUpTo(S, n) == UNION {[1..k -> S] : k \in 0..n}

RECURSIVE Flatten(_)
Flatten(ss) == IF ss = <<>> THEN <<>> ELSE Head(ss) \o Flatten(Tail(ss))

Min2(a, b) == IF a < b THEN a ELSE b

\* sep.join(parts)
RECURSIVE Join(_, _)
Join(parts, sep) ==
    IF parts = <<>> THEN ""
    ELSE IF Len(parts) = 1 THEN parts[1]
    ELSE parts[1] \o sep \o Join(Tail(parts), sep)

\* The code points of the identifiers the model uses (Python compares str by
\* code point).
CodePoints ==
    [s \in {"Audit", "Controller", "Repo", "Zeta", "repo", "re"} |->
        CASE s = "Audit"      -> <<65, 117, 100, 105, 116>>
          [] s = "Controller" -> <<67, 111, 110, 116, 114, 111, 108, 108, 101, 114>>
          [] s = "Repo"       -> <<82, 101, 112, 111>>
          [] s = "Zeta"       -> <<90, 101, 116, 97>>
          [] s = "repo"       -> <<114, 101, 112, 111>>
          [] s = "re"         -> <<114, 101>>]

\* a < b for two Python str
PyStrLess(a, b) ==
    LET x == CodePoints[a]
        y == CodePoints[b]
        n == Min2(Len(x), Len(y))
    IN  \/ \E i \in 1..n : /\ x[i] < y[i]
                           /\ \A j \in 1..(i - 1) : x[j] = y[j]
        \/ /\ Len(x) < Len(y)
           /\ \A j \in 1..n : x[j] = y[j]

\* sorted(S) for a set of str
RECURSIVE Sorted(_)
Sorted(S) ==
    IF S = {} THEN <<>>
    ELSE LET least == CHOOSE x \in S : \A y \in S \ {x} : PyStrLess(x, y)
         IN  <<least>> \o Sorted(S \ {least})

----------------------------------------------------------------------------
(* javalang nodes.  Only the attributes the generator reads, and those the *)
(* traversal descends into, are kept.                                      *)

Literal(v) == [type |-> "Literal", value |-> v]

MemberReference(m) ==
    [type |-> "MemberReference", qualifier |-> "", member |-> m]

\* qualifier is "" for a plain call f(), NoneValue for a call that is a
\* selector of another expression (g().f()), else the dotted prefix.
MethodInvocation(q, m, args, sels) ==
    [type |-> "MethodInvocation", qualifier |-> q, member |-> m,
     arguments |-> args, selectors |-> sels]

BinaryOperation(op, l, r) ==
    [type |-> "BinaryOperation", operator |-> op, operandl |-> l, operandr |-> r]

Assignment(l, v) ==
    [type |-> "Assignment", expressionl |-> l, value |-> v]

StatementExpression(e) == [type |-> "StatementExpression", expression |-> e]

\* "body" is None for a method declared without a body: has_body is FALSE.
MethodDeclaration(n, hasBody, stmts) ==
    [type |-> "MethodDeclaration", name |-> n, has_body |-> hasBody,
     body |-> stmts]

\* "methods" is the class body's MethodDeclarations, in declaration order.
ClassDeclaration(n, ms) ==
    [type |-> "ClassDeclaration", name |-> n, methods |-> ms]

InterfaceDeclaration(n, ms) ==
    [type |-> "InterfaceDeclaration", name |-> n, methods |-> ms]

CompilationUnit(ts) == [type |-> "CompilationUnit", types |-> ts]

\* Node.children restricted to the children that are nodes or lists of nodes,
\* in the order of the class's attrs.
Children(n) ==
    CASE n.type = "CompilationUnit" -> n.types
      [] n.type = "ClassDeclaration" -> n.methods
      [] n.type = "InterfaceDeclaration" -> n.methods
      [] n.type = "MethodDeclaration" -> n.body
      [] n.type = "StatementExpression" -> <<n.expression>>
      [] n.type = "MethodInvocation" -> n.arguments \o n.selectors
      [] n.type = "BinaryOperation" -> <<n.operandl, n.operandr>>
      [] n.type = "Assignment" -> <<n.expressionl, n.value>>
      [] OTHER -> <<>>

\* Iterating a node: the node, then each child's walk, depth first.
RECURSIVE Walk(_)
Walk(n) ==
    LET cs == Children(n)
    IN  <<n>> \o Flatten([i \in 1..Len(cs) |-> Walk(cs[i])])

\* node.filter(pattern): the walked nodes of one class, in walk order.
Filter(n, pattern) == SelectSeq(Walk(n), LAMBDA x : x.type = pattern)

\* repr() of a node, which str() uses.
NodeRepr(n) == n.type

----------------------------------------------------------------------------
(* SequenceDiagramGenerator                                                *)

\* One argument of _extract_arguments' loop.  The tests are hasattr tests:
\* every node class with a "value" attribute takes the first branch and every
\* one with a "member" attribute the second.  A Literal's value is a str; an
\* Assignment's value is a node, whose str() is its repr().
RenderArgument(arg) ==
    IF "value" \in DOMAIN arg
    THEN IF arg.type = "Assignment" THEN NodeRepr(arg.value) ELSE arg.value
    ELSE IF "member" \in DOMAIN arg
    THEN arg.member
    ELSE NodeRepr(arg)

_extract_arguments(node) ==
    IF "arguments" \in DOMAIN node
    THEN [i \in 1..Len(node.arguments) |-> RenderArgument(node.arguments[i])]
    ELSE <<>>

\* The target of one invocation: the qualifier when it is truthy.
TargetAlwaysCurrent(node, cur) == cur

TargetClass(node, cur) ==
    IF "qualifier" \in DOMAIN node /\ node.qualifier \notin {NoneValue, ""}
    THEN node.qualifier
    ELSE cur

\* The events one walk of method_node appends.
EventsUntilUnrecognized(mnode, cur) ==
    LET calls == Filter(mnode, "MethodInvocation")
        withMember == SelectSeq(calls, LAMBDA c : "member" \in DOMAIN c)
        bad == {i \in DOMAIN withMember :
                    \E k \in DOMAIN withMember[i].arguments :
                        /\ "value" \notin DOMAIN withMember[i].arguments[k]
                        /\ "member" \notin DOMAIN withMember[i].arguments[k]}
        stop == IF bad = {} THEN Len(withMember)
                ELSE (CHOOSE i \in bad : \A j \in bad : i <= j) - 1
    IN  [i \in 1..stop |->
            [from |-> cur,
             to |-> TargetClass(withMember[i], cur),
             message |-> withMember[i].member,
             arguments |-> _extract_arguments(withMember[i])]]

EventsFromTarget(mnode, cur) ==
    LET calls == Filter(mnode, "MethodInvocation")
        withMember == SelectSeq(calls, LAMBDA c : "member" \in DOMAIN c)
    IN  [i \in 1..Len(withMember) |->
            [from |-> TargetClass(withMember[i], cur),
             to |-> TargetClass(withMember[i], cur),
             message |-> withMember[i].member,
             arguments |-> _extract_arguments(withMember[i])]]

EventsOf(mnode, cur) ==
    LET calls == Filter(mnode, "MethodInvocation")
        withMember == SelectSeq(calls, LAMBDA c : "member" \in DOMAIN c)
    IN  [i \in 1..Len(withMember) |->
            [from |-> cur,
             to |-> TargetClass(withMember[i], cur),
             message |-> withMember[i].member,
             arguments |-> _extract_arguments(withMember[i])]]

\* _analyze_method_body: the interaction list after walking method_node.
EventsReversed(mnode, cur, acc) ==
    IF ~mnode.has_body \/ mnode.body = <<>>
    THEN acc
    ELSE LET evs == EventsOf(mnode, cur)
         IN  acc \o [i \in 1..Len(evs) |-> evs[Len(evs) + 1 - i]]

_analyze_method_body(mnode, cur, acc) ==
    IF ~mnode.has_body \/ mnode.body = <<>>
    THEN acc
    ELSE acc \o EventsOf(mnode, cur)

\* The constant head of the sequence diagram.
SequencePreamble ==
    << "@startuml",
       "skinparam sequenceMessageAlign center",
       "skinparam responseMessageBelowArrow true",
       "skinparam maxMessageSize 100",
       "skinparam sequence {",
       "    ArrowColor DeepSkyBlue",
       "    LifeLineBorderColor blue",
       "    ParticipantBorderColor DarkBlue",
       "    ParticipantBackgroundColor LightBlue",
       "    ParticipantFontStyle bold",
       "}" >>

\* The participant set gathered from the interactions.
ParticipantsTargetsOnly(inter) == {inter[i].to : i \in DOMAIN inter}

Participants(inter) ==
    {inter[i].from : i \in DOMAIN inter} \cup {inter[i].to : i \in DOMAIN inter}

ParticipantLine(p) == "participant \"" \o p \o "\" as " \o p

\* One interaction line.
InteractionLineAlwaysParens(e) ==
    e.from \o " -> " \o e.to \o ": " \o e.message
        \o "(" \o Join(e.arguments, ", ") \o ")"

InteractionLine(e) ==
    LET args_str == IF e.arguments # <<>>
                    THEN "(" \o Join(e.arguments, ", ") \o ")"
                    ELSE ""
    IN  e.from \o " -> " \o e.to \o ": " \o e.message \o args_str

\* _generate_sequence_diagram's list "diagram" for a non-empty interaction list.
DiagramLinesParticipantsLast(inter) ==
    LET ps == Sorted(Participants(inter))
    IN  SequencePreamble
        \o [i \in 1..Len(inter) |-> InteractionLine(inter[i])]
        \o [i \in 1..Len(ps) |-> ParticipantLine(ps[i])]
        \o << "@enduml" >>

DiagramLines(inter) ==
    LET ps == Sorted(Participants(inter))
    IN  SequencePreamble
        \o [i \in 1..Len(ps) |-> ParticipantLine(ps[i])]
        \o [i \in 1..Len(inter) |-> InteractionLine(inter[i])]
        \o << "@enduml" >>

NoInteractionsMessage ==
    "No method interactions found to generate sequence diagram"

\* How an operation ended: nothing yet, a returned (text, image) pair, or a
\* raised exception of class exc_type with str() message.
NoResult ==
    [kind |-> "none", exc_type |-> "", message |-> "", diagram_code |-> "",
     png |-> ""]

Returned(text, image) ==
    [kind |-> "return", exc_type |-> "", message |-> "", diagram_code |-> text,
     png |-> image]

Raised(type, msg) ==
    [kind |-> "raise", exc_type |-> type, message |-> msg, diagram_code |-> "",
     png |-> ""]

\* The index of the method the inner loop stops at, 0 when none matches.
FirstIndexIgnoringName(ms, name) == IF ms # <<>> THEN 1 ELSE 0

FirstMethodIndex(ms, name) ==
    IF \E j \in DOMAIN ms : ms[j].name = name
    THEN CHOOSE j \in DOMAIN ms :
            /\ ms[j].name = name
            /\ \A k \in 1..(j - 1) : ms[k].name # name
    ELSE 0

NothingSelected ==
    [found |-> FALSE, class_name |-> NoneValue,
     method |-> MethodDeclaration("", FALSE, <<>>)]

\* The first pass of analyze_method_calls: the class and method both loops
\* break at.
SelectLastClass(tree, name) ==
    LET cls == Filter(tree, "ClassDeclaration")
        hits == {i \in DOMAIN cls : FirstMethodIndex(cls[i].methods, name) > 0}
    IN  IF hits = {} THEN NothingSelected
        ELSE LET i == CHOOSE h \in hits : \A g \in hits : g <= h
             IN  [found |-> TRUE, class_name |-> cls[i].name,
                  method |-> cls[i].methods[FirstMethodIndex(cls[i].methods, name)]]

SelectMethod(tree, name) ==
    LET cls == Filter(tree, "ClassDeclaration")
        hits == {i \in DOMAIN cls :
                    /\ cls[i].methods # <<>>
                    /\ FirstMethodIndex(cls[i].methods, name) > 0}
    IN  IF hits = {} THEN NothingSelected
        ELSE LET i == CHOOSE h \in hits : \A g \in hits : h <= g
             IN  [found |-> TRUE, class_name |-> cls[i].name,
                  method |-> cls[i].methods[FirstMethodIndex(cls[i].methods, name)]]

\* self.interactions = [] at the start of a request.
KeepInteractions(old) == old

FreshInteractions(old) == <<>>

NotFoundMessage(name) == "Method '" \o name \o "' not found in any class"

AnalyzePrefix == "Failed to analyze method calls: "

\* What the external renderer may do with the text it is given.
RenderOutcomes == {"png", "CalledProcessError", "no_png"}

\* str(e) and e.output of a CalledProcessError, and the image bytes.
ProcessErrorText == "Command returned non-zero exit status 1."
ProcessOutput == "plantuml stdout"
PngData == "PNG"

\* What javalang.parse.parse(code) may yield.
ParsedTree(t) == [outcome |-> "tree", tree |-> t, error |-> ""]

\* str() of a JavaSyntaxError is empty: it passes no message to Exception.
SyntaxFailure ==
    [outcome |-> "JavaSyntaxError", tree |-> CompilationUnit(<<>>), error |-> ""]

LexerFailure ==
    [outcome |-> "LexerError", tree |-> CompilationUnit(<<>>),
     error |-> "Could not process token"]

NoCode == [outcome |-> "none", tree |-> CompilationUnit(<<>>), error |-> ""]

NoMethodNode == MethodDeclaration("", FALSE, <<>>)

\* The observer's memory: the request and text of a returned request, and
\* whether a later request has been made since.
NothingRemembered ==
    [set |-> FALSE, earlier |-> FALSE, code |-> NoCode, classes |-> <<>>,
     method_name |-> "", text |-> ""]

\* The exception analyze_method_calls raises when no method matches: the
\* Exception of line 70, wrapped by the handler of line 116.
MethodNotFoundError(name) ==
    Raised("Exception", AnalyzePrefix \o NotFoundMessage(name))

\* The exception analyze_method_calls raises for an empty interaction list:
\* the Exception of line 159, wrapped by the handler of line 116.
EmptyTraceError == Raised("Exception", AnalyzePrefix \o NoInteractionsMessage)

\* SequenceDiagramGenerator.__init__
NewGenerator ==
    /\ interactions' = <<>>
    /\ current_class' = NoneValue
    /\ result' = NoResult
    /\ code' = NoCode
    /\ method_name' = ""
    /\ method_node' = NoMethodNode
    /\ diagram' = <<>>
    /\ plantuml_runs' = 0

\* analyze_method_calls(code, method_name), with the parser's and the
\* renderer's answers as inputs.
AnalyzeMethodCalls(parsed, name, render) ==
    /\ code' = parsed
    /\ method_name' = name
    /\ IF parsed.outcome = "JavaSyntaxError"
       THEN /\ result' = Raised("Exception", "Java syntax error: " \o parsed.error)
            /\ diagram' = <<>>
            /\ plantuml_runs' = 0
            /\ UNCHANGED <<interactions, current_class, method_node>>
       ELSE IF parsed.outcome = "LexerError"
       THEN /\ result' = Raised("Exception", AnalyzePrefix \o parsed.error)
            /\ diagram' = <<>>
            /\ plantuml_runs' = 0
            /\ UNCHANGED <<interactions, current_class, method_node>>
       ELSE LET sel == SelectMethod(parsed.tree, name)
                inter == IF sel.found
                         THEN _analyze_method_body(sel.method, sel.class_name,
                                                   FreshInteractions(interactions))
                         ELSE FreshInteractions(interactions)
            IN  /\ interactions' = inter
                /\ current_class' = sel.class_name
                /\ method_node' = IF sel.found THEN sel.method ELSE method_node
                /\ IF ~sel.found
                   THEN /\ result' = MethodNotFoundError(name)
                        /\ diagram' = <<>>
                        /\ plantuml_runs' = 0
                   ELSE IF inter = <<>>
                   THEN /\ result' = EmptyTraceError
                        /\ diagram' = <<>>
                        /\ plantuml_runs' = 0
                   ELSE /\ diagram' = DiagramLines(inter)
                        /\ plantuml_runs' = 1
                        /\ result' =
                            CASE render = "png" ->
                                    Returned(Join(DiagramLines(inter), "\n"), PngData)
                              [] render = "CalledProcessError" ->
                                    Raised("Exception",
                                           AnalyzePrefix \o "Failed to run PlantUML: "
                                           \o ProcessErrorText \o "\nOutput: "
                                           \o ProcessOutput)
                              [] OTHER ->
                                    Raised("Exception",
                                           AnalyzePrefix \o "Failed to generate diagram: "
                                           \o "PlantUML failed to generate the diagram")

\* The threads that extract at the same time, each serving one request.
Threads == {"t1", "t2"}

\* A generator as __init__ leaves it.
NewGeneratorState == [interactions |-> <<>>, current_class |-> NoneValue]

NoGenerators == [g \in Threads |-> NewGeneratorState]

\* A thread that has not entered analyze_method_calls.
IdleThread ==
    [pc |-> "idle", generator |-> NoneValue, code |-> NoCode, method_name |-> "",
     render |-> "", method_node |-> NoMethodNode, calls |-> <<>>,
     trace |-> <<>>, result |-> NoResult]

NoThreads == [t \in Threads |-> IdleThread]

----------------------------------------------------------------------------
(* The requests of the specification Spec.  A source is a run of up to     *)
(* MaxDecls declarations in source order, each opening a class or          *)
(* declaring a method of the class last opened.  The j-th method of the    *)
(* i-th class, when it has a body, makes one call named after (i, j), so   *)
(* that the events tell which body was walked.                             *)

ClassNameAt == <<"Controller", "Repo", "Audit", "Zeta", "re", "repo">>

MethodNames == {"process", "run"}

ClassOpen == [kind |-> "class", name |-> "", has_body |-> FALSE]

DeclKinds ==
    { ClassOpen,
      [kind |-> "method", name |-> "process", has_body |-> TRUE],
      [kind |-> "method", name |-> "process", has_body |-> FALSE],
      [kind |-> "method", name |-> "run", has_body |-> TRUE] }

\* The declaration runs that are sources: a method needs a class before it.
SourceShapes ==
    {sh \in SeqUpTo(DeclKinds, MaxDecls) : sh # <<>> => sh[1] = ClassOpen}

StepName(i, j) == "step" \o ToString(i) \o "_" \o ToString(j)

BuildMethod(i, j, k) ==
    MethodDeclaration(k.name, k.has_body,
        IF k.has_body
        THEN << StatementExpression(
                    MethodInvocation(IF j = 1 THEN "" ELSE "repo",
                                     StepName(i, j), <<>>, <<>>)) >>
        ELSE <<>>)

BuildTree(sh) ==
    LET opens == SelectSeq([p \in 1..Len(sh) |-> p], LAMBDA p : sh[p] = ClassOpen)
        last(i) == IF i = Len(opens) THEN Len(sh) ELSE opens[i + 1] - 1
    IN  CompilationUnit(
            [i \in 1..Len(opens) |->
                ClassDeclaration(ClassNameAt[i],
                    [j \in 1..(last(i) - opens[i]) |->
                        BuildMethod(i, j, sh[opens[i] + j])])])

\* Sources that declare process in an interface, which the first pass, a
\* filter on ClassDeclaration, does not visit.
InterfaceSources ==
    LET withBody == [kind |-> "method", name |-> "process", has_body |-> TRUE]
    IN  { CompilationUnit(
            << InterfaceDeclaration("Audit", << BuildMethod(1, 1, withBody) >>) >>),
          CompilationUnit(
            << InterfaceDeclaration("Audit", << BuildMethod(1, 1, withBody) >>),
               ClassDeclaration("Controller", << BuildMethod(2, 1, withBody) >>) >>) }

Requests ==
    {ParsedTree(BuildTree(sh)) : sh \in SourceShapes}
        \cup {ParsedTree(t) : t \in InterfaceSources}
        \cup {SyntaxFailure, LexerFailure}

Init ==
    /\ interactions = <<>>
    /\ current_class = NoneValue
    /\ result = NoResult
    /\ code = NoCode
    /\ method_name = ""
    /\ method_node = NoMethodNode
    /\ diagram = <<>>
    /\ plantuml_runs = 0
    /\ remembered = NothingRemembered
    /\ classes = <<>>
    /\ uml_code = <<>>
    /\ generators = NoGenerators
    /\ batch = NoBatch
    /\ table_usages = <<>>
    /\ threads = NoThreads

\* generate_sequence_diagram of app.py: a generator is made for one request.
AppRequest ==
    /\ result.kind = "none"
    /\ \E parsed \in Requests, name \in MethodNames, render \in RenderOutcomes :
            AnalyzeMethodCalls(parsed, name, render)
    /\ UNCHANGED <<remembered, classes, uml_code>>
    /\ UNCHANGED <<generators, threads, batch, table_usages>>

AppNewGenerator ==
    /\ result.kind # "none"
    /\ NewGenerator
    /\ UNCHANGED <<remembered, classes, uml_code>>
    /\ UNCHANGED <<generators, threads, batch, table_usages>>

Next == AppRequest \/ AppNewGenerator

Spec == Init /\ [][Next]_vars

----------------------------------------------------------------------------
(* SpecWalk: _analyze_method_body applied to one method node, as           *)
(* analyze_method_calls calls it: after the reset of the interaction list  *)
(* and with current_class set to the declaring class.                      *)

Lit1 == Literal("1")
LitA == Literal("\"a\"")
RefX == MemberReference("x")
SumX1 == BinaryOperation("+", RefX, Lit1)
AssignX1 == Assignment(RefX, Lit1)
CallLoad == MethodInvocation("", "load", <<>>, <<>>)
CallDone == MethodInvocation(NoneValue, "done", <<>>, <<>>)

\* Statements with calls nested in arguments and chained as selectors, with
\* and without a qualifier, and one statement that makes no call.
WalkStatements ==
    { StatementExpression(MethodInvocation(q, m, n.args, n.sels)) :
        q \in {"", "repo"}, m \in {"save", "validate"},
        n \in { [args |-> <<>>, sels |-> <<>>],
                [args |-> <<CallLoad>>, sels |-> <<>>],
                [args |-> <<>>, sels |-> <<CallDone>>] } }
        \cup { StatementExpression(AssignX1) }

ArgNodes == {Lit1, LitA, RefX, SumX1, AssignX1, CallLoad}

\* One call whose argument list ranges over the argument shapes.
ProbeStatements ==
    { StatementExpression(MethodInvocation("repo", "probe", args, <<>>)) :
        args \in SeqUpTo(ArgNodes, MaxArgs) }

WalkMethods ==
    { MethodDeclaration("process", TRUE, stmts) :
        stmts \in SeqUpTo(WalkStatements, MaxStmts) }
        \cup { MethodDeclaration("process", TRUE, <<st>>) : st \in ProbeStatements }
        \cup { MethodDeclaration("process", TRUE,
                    <<st, StatementExpression(CallDone)>>) : st \in ProbeStatements }
        \cup { MethodDeclaration("process", FALSE, <<>>) }

InitWalk ==
    /\ interactions = <<>>
    /\ current_class \in {"Controller", "repo"}
    /\ method_node \in WalkMethods
    /\ result = NoResult
    /\ code = NoCode
    /\ method_name = "process"
    /\ diagram = <<>>
    /\ plantuml_runs = 0
    /\ remembered = NothingRemembered
    /\ classes = <<>>
    /\ uml_code = <<>>
    /\ generators = NoGenerators
    /\ batch = NoBatch
    /\ table_usages = <<>>
    /\ threads = NoThreads

AnalyzeMethodBody ==
    /\ result.kind = "none"
    /\ interactions' = _analyze_method_body(method_node, current_class, interactions)
    /\ result' = Returned("", "")
    /\ UNCHANGED <<code, method_name, current_class, method_node, diagram,
                   plantuml_runs, remembered, classes, uml_code>>
    /\ UNCHANGED <<generators, threads, batch, table_usages>>

NextWalk == AnalyzeMethodBody

SpecWalk == InitWalk /\ [][NextWalk]_vars

----------------------------------------------------------------------------
(* SpecSynth: _generate_sequence_diagram applied to an interaction list.   *)
(* Every event of a list has the root class as its source.                 *)

EventsFrom(cur) ==
    [from : {cur}, to : {cur, "repo", "Audit"}, message : {"save", "validate"},
     arguments : {<<>>, <<"x">>, <<"x", "1">>}]

InitSynth ==
    /\ current_class \in {"Controller", "Repo"}
    /\ interactions \in SeqUpTo(EventsFrom(current_class), MaxEvents)
    /\ method_node = NoMethodNode
    /\ result = NoResult
    /\ code = NoCode
    /\ method_name = "process"
    /\ diagram = <<>>
    /\ plantuml_runs = 0
    /\ remembered = NothingRemembered
    /\ classes = <<>>
    /\ uml_code = <<>>
    /\ generators = NoGenerators
    /\ batch = NoBatch
    /\ table_usages = <<>>
    /\ threads = NoThreads

GenerateSequenceDiagram ==
    /\ result.kind = "none"
    /\ IF interactions = <<>>
       THEN /\ result' = Raised("Exception", NoInteractionsMessage)
            /\ diagram' = <<>>
       ELSE /\ diagram' = DiagramLines(interactions)
            /\ result' = Returned(Join(DiagramLines(interactions), "\n"), "")
    /\ UNCHANGED <<code, method_name, interactions, current_class, method_node,
                   plantuml_runs, remembered, classes, uml_code>>
    /\ UNCHANGED <<generators, threads, batch, table_usages>>

NextSynth == GenerateSequenceDiagram

SpecSynth == InitSynth /\ [][NextSynth]_vars

----------------------------------------------------------------------------
(* SpecRepeat: one generator serving any number of requests, and new       *)
(* generators made at any time, over a few sample sources.  An observer    *)
(* remembers the text some request returned.                               *)

SampleShapes ==
    { <<ClassOpen>>,
      <<ClassOpen, [kind |-> "method", name |-> "process", has_body |-> TRUE]>>,
      <<ClassOpen, [kind |-> "method", name |-> "process", has_body |-> FALSE]>>,
      <<ClassOpen, [kind |-> "method", name |-> "run", has_body |-> TRUE],
                   [kind |-> "method", name |-> "process", has_body |-> TRUE]>>,
      <<ClassOpen, [kind |-> "method", name |-> "run", has_body |-> TRUE],
        ClassOpen, [kind |-> "method", name |-> "run", has_body |-> TRUE],
                   [kind |-> "method", name |-> "process", has_body |-> TRUE]>> }

SampleRequests ==
    {ParsedTree(BuildTree(sh)) : sh \in SampleShapes} \cup {SyntaxFailure}

RepeatRequest ==
    /\ \E parsed \in SampleRequests, name \in MethodNames, render \in RenderOutcomes :
            AnalyzeMethodCalls(parsed, name, render)
    /\ remembered' = [remembered EXCEPT !.earlier = remembered.set]
    /\ UNCHANGED <<classes, uml_code>>
    /\ UNCHANGED <<generators, threads, batch, table_usages>>

RepeatNewGenerator ==
    /\ NewGenerator
    /\ UNCHANGED <<remembered, classes, uml_code>>
    /\ UNCHANGED <<generators, threads, batch, table_usages>>

RememberText ==
    /\ result.kind = "return"
    /\ code.outcome = "tree"
    /\ remembered' = [set |-> TRUE, earlier |-> FALSE, code |-> code,
                      classes |-> <<>>, method_name |-> method_name,
                      text |-> result.diagram_code]
    /\ UNCHANGED <<code, method_name, interactions, current_class, method_node,
                   diagram, plantuml_runs, result, classes, uml_code>>
    /\ UNCHANGED <<generators, threads, batch, table_usages>>

NextRepeat == RepeatRequest \/ RepeatNewGenerator \/ RememberText

SpecRepeat == Init /\ [][NextRepeat]_vars

----------------------------------------------------------------------------
(* UMLGenerator.  A class descriptor (JavaClass) is a record of its        *)
(* attributes.  A field or method declaration is kept as the sequence of   *)
(* its characters, so that lower() and the substring test can be computed; *)
(* Text() is the str itself.                                               *)

Text(chars) == Join(chars, "")

JavaClass(n, pkg, isInterface, isAbstract, fs, ms, ext, impl) ==
    [name |-> n, package |-> pkg, is_interface |-> isInterface,
     is_abstract |-> isAbstract, fields |-> fs, methods |-> ms,
     extends |-> ext, implements |-> impl]

\* str.lower() on one character.
LowerChar(c) ==
    CASE c = "A" -> "a" [] c = "B" -> "b" [] c = "C" -> "c" [] c = "D" -> "d"
      [] c = "E" -> "e" [] c = "F" -> "f" [] c = "G" -> "g" [] c = "H" -> "h"
      [] c = "I" -> "i" [] c = "J" -> "j" [] c = "K" -> "k" [] c = "L" -> "l"
      [] c = "M" -> "m" [] c = "N" -> "n" [] c = "O" -> "o" [] c = "P" -> "p"
      [] c = "Q" -> "q" [] c = "R" -> "r" [] c = "S" -> "s" [] c = "T" -> "t"
      [] c = "U" -> "u" [] c = "V" -> "v" [] c = "W" -> "w" [] c = "X" -> "x"
      [] c = "Y" -> "y" [] c = "Z" -> "z" [] OTHER -> c

Lower(chars) == [i \in DOMAIN chars |-> LowerChar(chars[i])]

\* sub in chars
Contains(chars, sub) ==
    \E i \in 0..(Len(chars) - Len(sub)) :
        \A k \in 1..Len(sub) : chars[i + k] = sub[k]

VisibilityCaseSensitive(decl) ==
    IF Contains(decl, << "p", "u", "b", "l", "i", "c" >>) THEN "+" ELSE "-"

\* '+' if 'public' in decl.lower() else '-'
Visibility(decl) ==
    IF Contains(Lower(decl), << "p", "u", "b", "l", "i", "c" >>) THEN "+" ELSE "-"

\* The list uml_code starts as on every call.
UmlHeader ==
    << "@startuml",
       "' Modern style configuration",
       "skinparam monochrome false",
       "skinparam shadowing false",
       "skinparam classAttributeIconSize 0",
       "skinparam classFontStyle bold",
       "skinparam classBackgroundColor LightBlue",
       "skinparam classBorderColor DarkBlue",
       "skinparam packageBackgroundColor White",
       "skinparam stereotypeCBackgroundColor LightYellow",
       "skinparam interfaceBackgroundColor LightGreen",
       "' Layout configuration",
       "skinparam linetype ortho",
       "left to right direction",
       "' Add title and header",
       "title Java Project Class Diagram\n",
       "header Generated by CodeMXJ\n",
       "footer Page %page% of %lastpage%" >>

\* uml_code is a local list, made anew by each call; "old" is the list the
\* previous call on the generator left.
AccumulatedUmlCode(old) == IF old = <<>> THEN UmlHeader ELSE old

NewUmlCode(old) == UmlHeader

PackageOfAbsentAsNone(c) ==
    IF "package" \in DOMAIN c THEN c.package ELSE NoneValue

PackageOf(c) == IF "package" \in DOMAIN c THEN c.package ELSE "default"

\* The keys of the dict "packages", in insertion order.
RECURSIVE PackageOrderWithRepeats(_, _)
PackageOrderWithRepeats(cs, seen) ==
    IF cs = <<>> THEN <<>>
    ELSE <<PackageOf(Head(cs))>> \o PackageOrderWithRepeats(Tail(cs), seen)

RECURSIVE PackageOrder(_, _)
PackageOrder(cs, seen) ==
    IF cs = <<>> THEN <<>>
    ELSE IF PackageOf(Head(cs)) \in seen
    THEN PackageOrder(Tail(cs), seen)
    ELSE <<PackageOf(Head(cs))>>
            \o PackageOrder(Tail(cs), seen \cup {PackageOf(Head(cs))})

StereotypesAbstractFirst(c) ==
    (IF "is_abstract" \in DOMAIN c /\ c.is_abstract THEN <<"abstract">> ELSE <<>>)
        \o (IF "is_interface" \in DOMAIN c /\ c.is_interface THEN <<"interface">> ELSE <<>>)

Stereotypes(c) ==
    (IF "is_interface" \in DOMAIN c /\ c.is_interface THEN <<"interface">> ELSE <<>>)
        \o (IF "is_abstract" \in DOMAIN c /\ c.is_abstract THEN <<"abstract">> ELSE <<>>)

ClassBlockMethodsFirst(c) ==
    LET stereotype_str == IF Stereotypes(c) # <<>>
                          THEN " <<" \o Join(Stereotypes(c), ",") \o ">>"
                          ELSE ""
    IN  << "\nclass " \o c.name \o stereotype_str \o " {" >>
        \o (IF c.methods # <<>>
            THEN [i \in 1..Len(c.methods) |->
                    "  " \o Visibility(c.methods[i]) \o Text(c.methods[i])] \o <<"">>
            ELSE <<>>)
        \o [i \in 1..Len(c.fields) |->
                "  " \o Visibility(c.fields[i]) \o Text(c.fields[i])]
        \o << "}" >>

ClassBlock(c) ==
    LET stereotype_str == IF Stereotypes(c) # <<>>
                          THEN " <<" \o Join(Stereotypes(c), ",") \o ">>"
                          ELSE ""
    IN  << "\nclass " \o c.name \o stereotype_str \o " {" >>
        \o [i \in 1..Len(c.fields) |->
                "  " \o Visibility(c.fields[i]) \o Text(c.fields[i])]
        \o (IF c.methods # <<>>
            THEN <<"">> \o [i \in 1..Len(c.methods) |->
                    "  " \o Visibility(c.methods[i]) \o Text(c.methods[i])]
            ELSE <<>>)
        \o << "}" >>

PackageBlock(pkg, cs) ==
    LET pkg_classes == SelectSeq(cs, LAMBDA c : PackageOf(c) = pkg)
    IN  (IF pkg # "default" THEN << "\npackage " \o pkg \o " {" >> ELSE <<>>)
        \o Flatten([i \in 1..Len(pkg_classes) |-> ClassBlock(pkg_classes[i])])
        \o (IF pkg # "default" THEN << "}" >> ELSE <<>>)

RelationshipLinesEmptyExtends(c) ==
    (IF c.extends # NoneValue
     THEN << c.name \o " --|> " \o c.extends >>
     ELSE <<>>)
        \o [i \in 1..Len(c.implements) |-> c.name \o " ..|> " \o c.implements[i]]

RelationshipLines(c) ==
    (IF c.extends \notin {NoneValue, ""}
     THEN << c.name \o " --|> " \o c.extends >>
     ELSE <<>>)
        \o [i \in 1..Len(c.implements) |-> c.name \o " ..|> " \o c.implements[i]]

\* The list uml_code when generate_class_diagram joins it.
UmlLinesDeclaredTargetsOnly(cs, start) ==
    LET pkgs == PackageOrder(cs, {})
        names == {cs[i].name : i \in DOMAIN cs}
        declared(c) ==
            [c EXCEPT !.extends = IF c.extends \in names THEN c.extends ELSE "",
                      !.implements = SelectSeq(c.implements, LAMBDA n : n \in names)]
    IN  start
        \o Flatten([i \in 1..Len(pkgs) |-> PackageBlock(pkgs[i], cs)])
        \o Flatten([i \in 1..Len(cs) |-> RelationshipLines(declared(cs[i]))])
        \o << "@enduml" >>

UmlLines(cs, start) ==
    LET pkgs == PackageOrder(cs, {})
    IN  start
        \o Flatten([i \in 1..Len(pkgs) |-> PackageBlock(pkgs[i], cs)])
        \o Flatten([i \in 1..Len(cs) |-> RelationshipLines(cs[i])])
        \o << "@enduml" >>

\* The attributes of a descriptor the loops read without a hasattr test, and
\* those a descriptor lacks.  Reading a lacking attribute raises
\* AttributeError, in the loops that precede the try statement.
ReadUnguarded == {"name", "fields", "methods", "extends", "implements"}

MissingAttributesNoHasattr(c) == (ReadUnguarded \cup {"package"}) \ DOMAIN c

MissingAttributes(c) == ReadUnguarded \ DOMAIN c

\* generate_class_diagram(classes), with the renderer's answer as an input.
GenerateClassDiagram(cs, render) ==
    /\ classes' = cs
    /\ IF \E i \in DOMAIN cs : MissingAttributes(cs[i]) # {}
       THEN /\ uml_code' = <<>>
            /\ plantuml_runs' = 0
            /\ result' = Raised("AttributeError",
                                "'JavaClass' object has no attribute")
       ELSE /\ uml_code' = UmlLines(cs, NewUmlCode(uml_code))
            /\ plantuml_runs' = 1
            /\ result' =
                CASE render = "png" ->
                        Returned(Join(UmlLines(cs, NewUmlCode(uml_code)), "\n"),
                                 PngData)
                  [] render = "CalledProcessError" ->
                        Raised("Exception",
                               "Failed to run PlantUML: " \o ProcessErrorText
                               \o "\nOutput: " \o ProcessOutput)
                  [] OTHER ->
                        Raised("Exception",
                               "Failed to generate diagram: "
                               \o "PlantUML failed to generate the diagram")
    /\ UNCHANGED <<code, method_name, interactions, current_class, method_node,
                   diagram>>

\* UMLGenerator.__init__: the generator keeps nothing but the renderer path.
NewUMLGenerator ==
    /\ classes' = <<>>
    /\ uml_code' = <<>>
    /\ plantuml_runs' = 0
    /\ result' = NoResult
    /\ UNCHANGED <<code, method_name, interactions, current_class, method_node,
                   diagram>>

----------------------------------------------------------------------------
(* SpecUmlRepeat: one UMLGenerator serving any number of sections of up to *)
(* MaxSection sample classes; an observer remembers a returned text.       *)

OrderClass ==
    JavaClass("Order", "default", FALSE, FALSE,
        << << "p", "r", "i", "v", "a", "t", "e", " ", "i", "n", "t", " ", "i", "d" >>,
           << "p", "u", "b", "l", "i", "c", " ", "S", "t", "r", "i", "n", "g", " ", "n", "a", "m", "e" >> >>,
        << << "p", "u", "b", "l", "i", "c", " ", "v", "o", "i", "d", " ", "s", "h", "i", "p", "(", ")" >> >>,
        "", <<>>)

StoreClass ==
    JavaClass("SqlStore", "store", FALSE, TRUE,
        <<>>,
        << << "v", "o", "i", "d", " ", "s", "a", "v", "e", "(", ")" >> >>,
        "Base", << "Store" >>)

SampleClasses == {OrderClass, StoreClass}

UmlRequest ==
    /\ \E cs \in SeqUpTo(SampleClasses, MaxSection), render \in RenderOutcomes :
            GenerateClassDiagram(cs, render)
    /\ remembered' = [remembered EXCEPT !.earlier = remembered.set]
    /\ UNCHANGED <<generators, threads, batch, table_usages>>

UmlNewGenerator ==
    /\ NewUMLGenerator
    /\ UNCHANGED remembered
    /\ UNCHANGED <<generators, threads, batch, table_usages>>

UmlRememberText ==
    /\ result.kind = "return"
    /\ remembered' = [set |-> TRUE, earlier |-> FALSE, code |-> NoCode,
                      classes |-> classes, method_name |-> "",
                      text |-> result.diagram_code]
    /\ UNCHANGED <<code, method_name, interactions, current_class, method_node,
                   diagram, plantuml_runs, result, classes, uml_code>>
    /\ UNCHANGED <<generators, threads, batch, table_usages>>

NextUmlRepeat == UmlRequest \/ UmlNewGenerator \/ UmlRememberText

SpecUmlRepeat == Init /\ [][NextUmlRepeat]_vars

----------------------------------------------------------------------------
(* SpecUml: generate_class_diagram on a new UMLGenerator, as app.py calls  *)
(* it, for every list of up to MaxClasses descriptors.  A descriptor is    *)
(* one of the kinds below, named after its place in the list.  An unset    *)
(* list attribute (None) and an empty one are both falsy, the only test    *)
(* the generator applies to them: both are <<>>.  An attribute a kind      *)
(* does not carry is one hasattr() answers False for.                      *)

PrivateIntId ==
    << "p", "r", "i", "v", "a", "t", "e", " ", "i", "n", "t", " ", "i", "d" >>

PublicStringName ==
    << "p", "u", "b", "l", "i", "c", " ", "S", "t", "r", "i", "n", "g", " ", "n", "a", "m", "e" >>

PublicVoidShip ==
    << "p", "u", "b", "l", "i", "c", " ", "v", "o", "i", "d", " ", "s", "h", "i", "p", "(", ")" >>

VoidSave ==
    << "v", "o", "i", "d", " ", "s", "a", "v", "e", "(", ")" >>

UpperPublicLimit ==
    << "P", "U", "B", "L", "I", "C", " ", "s", "t", "a", "t", "i", "c", " ", "i", "n", "t", " ", "L", "I", "M", "I", "T" >>

PrivateRepublic ==
    << "p", "r", "i", "v", "a", "t", "e", " ", "R", "e", "p", "u", "b", "l", "i", "c", " ", "h", "o", "m", "e" >>

ProtectedClose ==
    << "p", "r", "o", "t", "e", "c", "t", "e", "d", " ", "v", "o", "i", "d", " ", "c", "l", "o", "s", "e", "(", ")" >>

UmlNameAt == << "Order", "SqlStore", "Invoice", "Ledger", "Shipment" >>

DescriptorKinds ==
    { \* the bare descriptor: only what the generator reads without a test
      [fields |-> << PrivateIntId, PublicStringName >>,
       methods |-> << PublicVoidShip >>,
       extends |-> NoneValue, implements |-> <<>>],
      \* everything set, nothing to list
      [package |-> "default", is_interface |-> FALSE, is_abstract |-> FALSE,
       fields |-> <<>>, methods |-> <<>>, extends |-> "", implements |-> <<>>,
       description |-> ""],
      [package |-> "store", is_interface |-> FALSE, is_abstract |-> TRUE,
       fields |-> <<>>, methods |-> << VoidSave >>,
       extends |-> "Base", implements |-> << "Store" >>],
      [package |-> "web", is_interface |-> TRUE, is_abstract |-> TRUE,
       fields |-> << UpperPublicLimit >>, methods |-> <<>>,
       extends |-> NoneValue, implements |-> << "Store", "Audit" >>,
       description |-> "Entry point"],
      [package |-> "store", is_interface |-> TRUE,
       fields |-> << PrivateRepublic, PrivateIntId >>,
       methods |-> << ProtectedClose, PublicVoidShip >>,
       extends |-> "Base", implements |-> <<>>,
       description |-> "Aggregate root"] }

\* JavaClass.from_dict(class_info) for the i-th class of a section.
BuildDescriptor(i, kind) == [name |-> UmlNameAt[i]] @@ kind

Sections ==
    { [i \in DOMAIN ks |-> BuildDescriptor(i, ks[i])] :
        ks \in SeqUpTo(DescriptorKinds, MaxClasses) }

UmlSectionRequest ==
    /\ result.kind = "none"
    /\ \E cs \in Sections, render \in RenderOutcomes :
            GenerateClassDiagram(cs, render)
    /\ UNCHANGED remembered
    /\ UNCHANGED <<generators, threads, batch, table_usages>>

UmlSectionNewGenerator ==
    /\ result.kind # "none"
    /\ NewUMLGenerator
    /\ UNCHANGED remembered
    /\ UNCHANGED <<generators, threads, batch, table_usages>>

NextUml == UmlSectionRequest \/ UmlSectionNewGenerator

SpecUml == Init /\ [][NextUml]_vars

----------------------------------------------------------------------------
(* SpecConcurrent: two threads, each serving one request of app.py's       *)
(* generate_sequence_diagram, which makes a SequenceDiagramGenerator of    *)
(* its own.  A thread's steps are the statements of analyze_method_calls   *)
(* that read or write the generator's attributes; the threads interleave   *)
(* between any two of them.                                                *)

\* The generator a thread's request runs on.
GeneratorShared(t) == "t1"

GeneratorOf(t) == t

ControllerSource ==
    CompilationUnit(<<
        ClassDeclaration("Controller", <<
            MethodDeclaration("process", TRUE,
                << StatementExpression(MethodInvocation("", "validate", <<>>, <<>>)),
                   StatementExpression(
                        MethodInvocation("repo", "save", <<RefX>>, <<>>)) >>) >>) >>)

RepoSource ==
    CompilationUnit(<<
        ClassDeclaration("Repo", <<
            MethodDeclaration("process", TRUE,
                << StatementExpression(MethodInvocation("", "load", <<>>, <<>>)) >>),
            MethodDeclaration("run", TRUE,
                << StatementExpression(
                        MethodInvocation("Audit", "log", <<LitA>>, <<>>)),
                   StatementExpression(MethodInvocation("", "flush", <<>>, <<>>)) >>) >>) >>)

AuditSource ==
    CompilationUnit(<<
        ClassDeclaration("Audit", << MethodDeclaration("process", FALSE, <<>>) >>) >>)

ConcurrentRequests ==
    {ParsedTree(t) : t \in {ControllerSource, RepoSource, AuditSource}}
        \cup {SyntaxFailure}

\* The invocations the loop of _analyze_method_body goes through.
CallsToVisit(mnode) ==
    IF ~mnode.has_body \/ mnode.body = <<>>
    THEN <<>>
    ELSE SelectSeq(Filter(mnode, "MethodInvocation"),
                   LAMBDA c : "member" \in DOMAIN c)

\* What analyze_method_calls hands back once the text is built.
Rendered(text, render) ==
    CASE render = "png" -> Returned(text, PngData)
      [] render = "CalledProcessError" ->
            Raised("Exception",
                   AnalyzePrefix \o "Failed to run PlantUML: "
                   \o ProcessErrorText \o "\nOutput: " \o ProcessOutput)
      [] OTHER ->
            Raised("Exception",
                   AnalyzePrefix \o "Failed to generate diagram: "
                   \o "PlantUML failed to generate the diagram")

sequentialVars ==
    <<code, method_name, interactions, current_class, method_node, diagram,
      plantuml_runs, result, remembered, classes, uml_code, batch,
      table_usages>>

\* Lines 50-53: parse, then reset the generator's attributes.
Enter(t) ==
    /\ threads[t].pc = "idle"
    /\ \E parsed \in ConcurrentRequests, name \in MethodNames :
        LET g == GeneratorOf(t)
            entered == [threads[t] EXCEPT !.generator = g, !.code = parsed,
                                          !.method_name = name]
        IN  IF parsed.outcome = "JavaSyntaxError"
            THEN /\ threads' = [threads EXCEPT ![t] =
                        [entered EXCEPT
                            !.pc = "done",
                            !.result = Raised("Exception",
                                              "Java syntax error: " \o parsed.error)]]
                 /\ UNCHANGED generators
            ELSE /\ threads' = [threads EXCEPT ![t] =
                        [entered EXCEPT !.pc = "first_pass"]]
                 /\ generators' = [generators EXCEPT ![g] =
                        [interactions |-> FreshInteractions(generators[g].interactions),
                         current_class |-> NoneValue]]
    /\ UNCHANGED sequentialVars

\* Lines 56-70: the first pass up to the call of _analyze_method_body.
FirstPass(t) ==
    /\ threads[t].pc = "first_pass"
    /\ LET g == threads[t].generator
           sel == SelectMethod(threads[t].code.tree, threads[t].method_name)
       IN  IF sel.found
           THEN /\ generators' = [generators EXCEPT
                        ![g].current_class = sel.class_name]
                /\ threads' = [threads EXCEPT ![t] =
                        [threads[t] EXCEPT !.pc = "walk",
                                           !.method_node = sel.method,
                                           !.calls = CallsToVisit(sel.method)]]
           ELSE /\ threads' = [threads EXCEPT ![t] =
                        [threads[t] EXCEPT
                            !.pc = "done",
                            !.result = MethodNotFoundError(threads[t].method_name)]]
                /\ UNCHANGED generators
    /\ UNCHANGED sequentialVars

\* Lines 124-139: one turn of the loop of _analyze_method_body.
Visit(t) ==
    /\ threads[t].pc = "walk"
    /\ threads[t].calls # <<>>
    /\ LET g == threads[t].generator
           node == Head(threads[t].calls)
           cur == generators[g].current_class
           event == [from |-> cur, to |-> TargetClass(node, cur),
                     message |-> node.member,
                     arguments |-> _extract_arguments(node)]
       IN  /\ generators' = [generators EXCEPT
                    ![g].interactions = Append(generators[g].interactions, event)]
           /\ threads' = [threads EXCEPT ![t].calls = Tail(threads[t].calls)]
    /\ UNCHANGED sequentialVars

\* Lines 72-116: _generate_sequence_diagram on the generator's interactions,
\* then the renderer.
Generate(t) ==
    /\ threads[t].pc = "walk"
    /\ threads[t].calls = <<>>
    /\ \E render \in RenderOutcomes :
        LET g == threads[t].generator
            inter == generators[g].interactions
        IN  threads' = [threads EXCEPT ![t] =
                [threads[t] EXCEPT
                    !.pc = "done",
                    !.render = render,
                    !.trace = inter,
                    !.result = IF inter = <<>>
                               THEN EmptyTraceError
                               ELSE Rendered(Join(DiagramLines(inter), "\n"), render)]]
    /\ UNCHANGED generators
    /\ UNCHANGED sequentialVars

NextConcurrent ==
    \E t \in Threads : Enter(t) \/ FirstPass(t) \/ Visit(t) \/ Generate(t)

SpecConcurrent == Init /\ [][NextConcurrent]_vars

----------------------------------------------------------------------------
(* SpecDocuments: the two generators side by side, each request on a new   *)
(* generator: a sequence diagram request, or a class diagram request for a *)
(* section of sample classes.                                              *)

DocumentsUmlRequest ==
    /\ result.kind = "none"
    /\ \E cs \in SeqUpTo(SampleClasses, MaxSection), render \in RenderOutcomes :
            GenerateClassDiagram(cs, render)
    /\ UNCHANGED remembered
    /\ UNCHANGED <<generators, threads, batch, table_usages>>

DocumentsNewGenerator ==
    /\ result.kind # "none"
    /\ NewGenerator
    /\ classes' = <<>>
    /\ uml_code' = <<>>
    /\ UNCHANGED remembered
    /\ UNCHANGED <<generators, threads, batch, table_usages>>

NextDocuments == AppRequest \/ DocumentsUmlRequest \/ DocumentsNewGenerator

SpecDocuments == Init /\ [][NextDocuments]_vars

----------------------------------------------------------------------------
(* Properties of behavioral synthesis (SpecSynth).                         *)

\* The actors of the current interaction list.
ActorUnion ==
    {interactions[i].from : i \in DOMAIN interactions}
        \cup {interactions[i].to : i \in DOMAIN interactions}

\* The lines of the document between the preamble and the interaction lines.
DeclaredCount ==
    Len(diagram) - Len(SequencePreamble) - Len(interactions) - 1

\* C1: for every non-empty trace the participant declarations are exactly
\* the union of the events' sources and targets, each actor declared once,
\* in lexicographically increasing order, whatever the order of the events.
C1_ParticipantsSortedUnion ==
    (result.kind = "return" /\ interactions # <<>>) =>
        /\ DeclaredCount = Cardinality(ActorUnion)
        /\ \E order \in [1..DeclaredCount -> ActorUnion] :
            /\ \A i \in 1..(DeclaredCount - 1) : PyStrLess(order[i], order[i + 1])
            /\ \A i \in 1..DeclaredCount :
                diagram[Len(SequencePreamble) + i]
                    = "participant \"" \o order[i] \o "\" as " \o order[i]

\* A trace whose events name three actors against their sorted order.
C1_Witness ==
    /\ result.kind = "return"
    /\ Len(interactions) = 2
    /\ current_class = "Controller"
    /\ interactions[1].to = "repo"
    /\ interactions[2].to = "Audit"
    /\ diagram[Len(SequencePreamble) + 1] = "participant \"Audit\" as Audit"
    /\ diagram[Len(SequencePreamble) + 3] = "participant \"repo\" as repo"

\* C2: one interaction line per event, the i-th line rendering the i-th
\* event as "source -> target: message(arg1, arg2, ...)", with no
\* parentheses at all for an event without arguments.
C2_InteractionLinesInTraceOrder ==
    (result.kind = "return" /\ interactions # <<>>) =>
        /\ Len(diagram) = Len(SequencePreamble) + Cardinality(ActorUnion)
                            + Len(interactions) + 1
        /\ \A i \in DOMAIN interactions :
            LET e == interactions[i]
                line == diagram[Len(SequencePreamble) + Cardinality(ActorUnion) + i]
                head == e.from \o " -> " \o e.to \o ": " \o e.message
            IN  CASE Len(e.arguments) = 0 -> line = head
                  [] Len(e.arguments) = 1 -> line = head \o "(" \o e.arguments[1] \o ")"
                  [] OTHER ->
                        line = head \o "(" \o e.arguments[1]
                                \o Join([k \in 1..(Len(e.arguments) - 1) |->
                                            ", " \o e.arguments[k + 1]], "")
                                \o ")"
        /\ result.diagram_code = Join(diagram, "\n")

\* Controller calling validate() and then repo.save(x).
C2_Witness ==
    /\ result.kind = "return"
    /\ interactions =
        << [from |-> "Controller", to |-> "Controller", message |-> "validate",
            arguments |-> <<>>],
           [from |-> "Controller", to |-> "repo", message |-> "save",
            arguments |-> <<"x">>] >>
    /\ diagram[Len(SequencePreamble) + 1] = "participant \"Controller\" as Controller"
    /\ diagram[Len(SequencePreamble) + 2] = "participant \"repo\" as repo"
    /\ diagram[Len(SequencePreamble) + 3] = "Controller -> Controller: validate"
    /\ diagram[Len(SequencePreamble) + 4] = "Controller -> repo: save(x)"
    /\ diagram[Len(SequencePreamble) + 5] = "@enduml"

----------------------------------------------------------------------------
(* Properties of the body walk (SpecWalk).                                 *)

\* The invocation expressions of an expression in pre-order, left to right:
\* a call, then the calls in its arguments, then the calls chained on it.
RECURSIVE CallsIn(_)
CallsIn(e) ==
    CASE e.type = "StatementExpression" -> CallsIn(e.expression)
      [] e.type = "MethodInvocation" ->
            <<e>> \o Flatten([i \in 1..Len(e.arguments) |-> CallsIn(e.arguments[i])])
                  \o Flatten([i \in 1..Len(e.selectors) |-> CallsIn(e.selectors[i])])
      [] e.type = "BinaryOperation" -> CallsIn(e.operandl) \o CallsIn(e.operandr)
      [] e.type = "Assignment" -> CallsIn(e.expressionl) \o CallsIn(e.value)
      [] OTHER -> <<>>

\* The invocation expressions of the walked method's body.
BodyCalls ==
    IF method_node.has_body
    THEN Flatten([i \in 1..Len(method_node.body) |-> CallsIn(method_node.body[i])])
    ELSE <<>>

C7_TargetIsQualifierOrRoot ==
    (result.kind = "return" /\ Len(interactions) = Len(BodyCalls)) =>
        \A i \in DOMAIN interactions :
            /\ interactions[i].message = BodyCalls[i].member
            /\ interactions[i].to =
                    IF BodyCalls[i].qualifier \in {NoneValue, ""}
                    THEN current_class
                    ELSE BodyCalls[i].qualifier

\* repo.save().done() in a method of Controller: the qualified call targets
\* "repo" and the chained call, which has no qualifier, targets Controller.
C7_Witness ==
    /\ result.kind = "return"
    /\ current_class = "Controller"
    /\ Len(interactions) = 2
    /\ BodyCalls[1].qualifier = "repo"
    /\ interactions[1].to = "repo"
    /\ BodyCalls[2].qualifier = NoneValue
    /\ interactions[2].to = "Controller"

\* C8: an event's argument renderings are, in the order written, the value of
\* a literal, the member name of a simple member reference, and the raw text
\* of any other argument, a nested method invocation included.
C8_ArgumentsLiteralMemberElseRaw ==
    (result.kind = "return" /\ Len(interactions) = Len(BodyCalls)) =>
        \A i \in DOMAIN interactions :
            /\ Len(interactions[i].arguments) = Len(BodyCalls[i].arguments)
            /\ \A k \in DOMAIN interactions[i].arguments :
                LET arg == BodyCalls[i].arguments[k]
                IN  interactions[i].arguments[k] =
                        CASE arg.type = "Literal" -> arg.value
                          [] arg.type = "MemberReference" -> arg.member
                          [] OTHER -> NodeRepr(arg)

----------------------------------------------------------------------------
(* Properties of analyze_method_calls (Spec).                              *)

\* The (class, method) positions of the request's source whose method has
\* the requested name.
MatchingPairs ==
    {p \in (DOMAIN code.tree.types) \X (1..MaxDecls) :
        /\ code.tree.types[p[1]].type = "ClassDeclaration"
        /\ p[2] \in DOMAIN code.tree.types[p[1]].methods
        /\ code.tree.types[p[1]].methods[p[2]].name = method_name}

\* The first of them in source order: classes first, then methods.
FirstPair ==
    CHOOSE p \in MatchingPairs :
        \A q \in MatchingPairs :
            p[1] < q[1] \/ (p[1] = q[1] /\ p[2] <= q[2])

MethodAt(p) == code.tree.types[p[1]].methods[p[2]]

CallsOfMethod(m) ==
    IF m.has_body
    THEN Flatten([i \in 1..Len(m.body) |-> CallsIn(m.body[i])])
    ELSE <<>>

Answered == code.outcome = "tree" /\ result.kind # "none"

\* C4: of several matching methods the first class/method pair in source
\* order is selected: the root class is its declaring class and the trace
\* holds the events of its body and no event of any other matching method.
C4_FirstMatchSelected ==
    (Answered /\ MatchingPairs # {}) =>
        /\ current_class = code.tree.types[FirstPair[1]].name
        /\ method_node = MethodAt(FirstPair)
        /\ Len(interactions) = Len(CallsOfMethod(MethodAt(FirstPair)))
        /\ \A i \in DOMAIN interactions :
            /\ interactions[i].message = CallsOfMethod(MethodAt(FirstPair))[i].member
            /\ \A q \in MatchingPairs \ {FirstPair} :
                \A k \in DOMAIN CallsOfMethod(MethodAt(q)) :
                    interactions[i].message # CallsOfMethod(MethodAt(q))[k].member

\* Two classes that both declare process, each with a call of its own, and
\* the first of them with an overload.
C4_Witness ==
    /\ Answered
    /\ method_name = "process"
    /\ {<<1, 1>>, <<1, 2>>, <<2, 1>>} \subseteq MatchingPairs
    /\ \A q \in MatchingPairs : MethodAt(q).has_body
    /\ current_class = "Controller"
    /\ result.kind = "return"
    /\ interactions[1].message = "step1_1"

\* C5: a name that no class declares fails with the method-not-found error
\* and leaves no partial output: no event recorded, no diagram text built or
\* returned, the renderer not run.
C5_NotFoundNoPartialOutput ==
    (Answered /\ MatchingPairs = {}) =>
        /\ result.kind = "raise"
        /\ result.message =
                "Failed to analyze method calls: Method '" \o method_name
                    \o "' not found in any class"
        /\ result.diagram_code = ""
        /\ result.png = ""
        /\ interactions = <<>>
        /\ diagram = <<>>
        /\ plantuml_runs = 0

\* A source whose only method is run, asked for process.
C5_Witness ==
    /\ Answered
    /\ method_name = "process"
    /\ Len(code.tree.types) = 1
    /\ Len(code.tree.types[1].methods) = 1
    /\ code.tree.types[1].methods[1].name = "run"
    /\ code.tree.types[1].methods[1].has_body
    /\ result.kind = "raise"

\* C6: a located method without invocations yields an empty trace, and the
\* error raised for it is of another kind than the method-not-found error.
C6_EmptyTraceIsDistinctKind ==
    (Answered /\ MatchingPairs # {}
        /\ CallsOfMethod(MethodAt(FirstPair)) = <<>>) =>
        /\ interactions = <<>>
        /\ result.kind = "raise"
        /\ result.message = AnalyzePrefix \o NoInteractionsMessage
        /\ result.exc_type # MethodNotFoundError(method_name).exc_type

----------------------------------------------------------------------------
(* Repeated requests (SpecRepeat).                                         *)

\* The current request repeats the remembered one, made earlier.
RepeatsRemembered ==
    /\ remembered.set
    /\ remembered.earlier
    /\ result.kind = "return"
    /\ code = remembered.code
    /\ method_name = remembered.method_name

\* C10: two requests with the same source and the same method name return
\* the same diagram text, on new generators or on one generator with any
\* other requests in between.
C10_SameRequestSameText ==
    RepeatsRemembered => result.diagram_code = remembered.text

\* A request repeated on a generator that has answered other requests since.
C10_Witness ==
    /\ RepeatsRemembered
    /\ Len(code.tree.types) = 2
    /\ method_name = "run"
    /\ Len(interactions) = 1

----------------------------------------------------------------------------
(* Repeated structural synthesis (SpecUmlRepeat).                          *)

\* The current section repeats the remembered one, synthesized earlier.
RepeatsRememberedSection ==
    /\ remembered.set
    /\ remembered.earlier
    /\ result.kind = "return"
    /\ classes = remembered.classes

\* C9: synthesizing the same descriptor sequence again yields the same text,
\* whatever the generator synthesized before.
C9_SameClassesSameText ==
    RepeatsRememberedSection => result.diagram_code = remembered.text

\* The section (Order, SqlStore) synthesized again on a generator whose
\* last text was remembered from an earlier call.
C9_Witness ==
    /\ RepeatsRememberedSection
    /\ classes = <<OrderClass, StoreClass>>
    /\ uml_code[Len(UmlHeader) + 1] = "\nclass Order {"
    /\ uml_code[Len(UmlHeader) + 2] = "  -private int id"
    /\ uml_code[Len(UmlHeader) + 3] = "  +public String name"
    /\ uml_code[Len(UmlHeader) + 4] = ""
    /\ uml_code[Len(UmlHeader) + 5] = "  +public void ship()"
    /\ uml_code[Len(uml_code)] = "@enduml"

----------------------------------------------------------------------------
(* Properties of structural synthesis (SpecUml).                           *)

\* The text of the current section was built.
SectionBuilt == uml_code # <<>>

\* The package a descriptor belongs to: its package, "default" when it
\* carries none.
DescriptorPackage(c) == IF "package" \in DOMAIN c THEN c.package ELSE "default"

\* The lines of uml_code equal to a given line.
LinePositions(line) == {k \in DOMAIN uml_code : uml_code[k] = line}

\* The header line of the i-th descriptor's class block and its place.
HeaderAt(i) == ClassBlock(classes[i])[1]

HeaderPos(i) == CHOOSE k \in LinePositions(HeaderAt(i)) : TRUE

\* The first descriptor of the package of the i-th descriptor.
FirstSeen(i) ==
    CHOOSE f \in DOMAIN classes :
        /\ DescriptorPackage(classes[f]) = DescriptorPackage(classes[i])
        /\ \A k \in 1..(f - 1) :
                DescriptorPackage(classes[k]) # DescriptorPackage(classes[i])

PackageOpener(pkg) == "\npackage " \o pkg \o " {"

NamedPackages ==
    {DescriptorPackage(classes[i]) : i \in DOMAIN classes} \ {"default"}

\* C11: class blocks are grouped by package: packages in first-seen order,
\* one group per package even when its classes are apart in the input, and
\* the classes of a package in input order.
C11_GroupedByPackageFirstSeen ==
    SectionBuilt =>
        /\ \A i \in DOMAIN classes : Cardinality(LinePositions(HeaderAt(i))) = 1
        /\ \A pkg \in NamedPackages :
                Cardinality(LinePositions(PackageOpener(pkg))) = 1
        /\ \A i, j \in DOMAIN classes :
                (\/ FirstSeen(i) < FirstSeen(j)
                 \/ (FirstSeen(i) = FirstSeen(j) /\ i < j))
                    => HeaderPos(i) < HeaderPos(j)

\* Three classes of the packages store, web, store: the third class block
\* comes before the second.
C11_Witness ==
    /\ SectionBuilt
    /\ Len(classes) = 3
    /\ DescriptorPackage(classes[1]) = "store"
    /\ DescriptorPackage(classes[2]) = "web"
    /\ DescriptorPackage(classes[3]) = "store"
    /\ HeaderPos(1) < HeaderPos(3)
    /\ HeaderPos(3) < HeaderPos(2)

\* A line "}" that follows a line "}" closes a package block.
PackageClosers ==
    {k \in DOMAIN uml_code : k > 1 /\ uml_code[k] = "}" /\ uml_code[k - 1] = "}"}

OpenerPos(pkg) == CHOOSE k \in LinePositions(PackageOpener(pkg)) : TRUE

\* The package blocks as (opener, closer) pairs of line numbers.
PackageSpans ==
    {<<OpenerPos(pkg), k>> : pkg \in NamedPackages, k \in PackageClosers} 

SpanOf(pkg) ==
    CHOOSE sp \in PackageSpans :
        /\ sp[1] = OpenerPos(pkg)
        /\ sp[2] > sp[1]
        /\ \A k \in PackageClosers : k > sp[1] => sp[2] <= k

Wrapped(i, pkg) ==
    /\ LinePositions(PackageOpener(pkg)) # {}
    /\ \E k \in PackageClosers : k > OpenerPos(pkg)
    /\ SpanOf(pkg)[1] < HeaderPos(i)
    /\ HeaderPos(i) < SpanOf(pkg)[2]

MemberLine(decl) == "  " \o Visibility(decl) \o Text(decl)

FieldsListed(i) ==
    \A k \in 1..Len(classes[i].fields) :
        uml_code[HeaderPos(i) + k] = MemberLine(classes[i].fields[k])

MethodsListedFrom(i, first) ==
    \A k \in 1..Len(classes[i].methods) :
        uml_code[first + k] = MemberLine(classes[i].methods[k])

\* C13 as stated: every class block is its fields, a blank line, its
\* methods, for every class.
C13_FieldsBlankMethods ==
    SectionBuilt =>
        \A i \in DOMAIN classes :
            LET nf == Len(classes[i].fields)
                nm == Len(classes[i].methods)
            IN  /\ FieldsListed(i)
                /\ uml_code[HeaderPos(i) + nf + 1] = ""
                /\ MethodsListedFrom(i, HeaderPos(i) + nf + 1)
                /\ uml_code[HeaderPos(i) + nf + nm + 2] = "}"

\* C13 (amended): every class block is its fields in declared order, then,
\* only when the class has a method, a blank line and its methods in
\* declared order; the block of a class without methods ends after its
\* fields.
C13_FieldsThenBlankAndMethodsIfAny ==
    SectionBuilt =>
        \A i \in DOMAIN classes :
            LET nf == Len(classes[i].fields)
                nm == Len(classes[i].methods)
            IN  /\ FieldsListed(i)
                /\ IF nm > 0
                   THEN /\ uml_code[HeaderPos(i) + nf + 1] = ""
                        /\ MethodsListedFrom(i, HeaderPos(i) + nf + 1)
                        /\ uml_code[HeaderPos(i) + nf + nm + 2] = "}"
                   ELSE uml_code[HeaderPos(i) + nf + 1] = "}"

\* The class Order of two fields and one method, without a package, and
\* after it a class of one field and no method.
C13_Witness ==
    /\ SectionBuilt
    /\ Len(classes) = 2
    /\ classes[2].methods = <<>>
    /\ classes[2].fields # <<>>
    /\ SubSeq(uml_code, Len(UmlHeader) + 1, Len(UmlHeader) + 6)
        = << "\nclass Order {", "  -private int id", "  +public String name",
             "", "  +public void ship()", "}" >>

\* The edges a descriptor asks for.
ExtendsSet(c) == c.extends # NoneValue /\ c.extends # ""

EdgesOf(c) ==
    (IF ExtendsSet(c) THEN << c.name \o " --|> " \o c.extends >> ELSE <<>>)
        \o [k \in 1..Len(c.implements) |-> c.name \o " ..|> " \o c.implements[k]]

ExpectedEdges == Flatten([i \in DOMAIN classes |-> EdgesOf(classes[i])])

\* The last line of the class and package blocks.
LastBlockLine ==
    LET closers == {k \in DOMAIN uml_code : uml_code[k] = "}"}
    IN  IF closers = {} THEN Len(UmlHeader)
        ELSE CHOOSE k \in closers : \A m \in closers : m <= k

\* C14: between the last block and the footer stand exactly the edges of the
\* descriptors in input order: one "--|>" line when extends is set, one
\* "..|>" line per implemented interface.
C14_EdgesAfterBlocks ==
    SectionBuilt =>
        /\ uml_code[Len(uml_code)] = "@enduml"
        /\ SubSeq(uml_code, LastBlockLine + 1, Len(uml_code) - 1) = ExpectedEdges
        /\ \A k \in (Len(UmlHeader) + 1)..LastBlockLine :
                \A e \in DOMAIN ExpectedEdges : uml_code[k] # ExpectedEdges[e]

\* A class with a superclass and an interface, a class with an empty
\* superclass name, and a class with two interfaces and no superclass.
C14_Witness ==
    /\ SectionBuilt
    /\ Len(classes) = 3
    /\ classes[2].extends = ""
    /\ SubSeq(uml_code, LastBlockLine + 1, Len(uml_code))
        = << "Order --|> Base", "Order ..|> Store",
             "Invoice ..|> Store", "Invoice ..|> Audit", "@enduml" >>

\* The declaration has the word "public" among its blank-separated words.
HasPublicToken(decl) ==
    \E a \in 1..Len(decl) :
        /\ a + 5 <= Len(decl)
        /\ SubSeq(decl, a, a + 5) = << "p", "u", "b", "l", "i", "c" >>
        /\ (a = 1 \/ decl[a - 1] = " ")
        /\ (a + 5 = Len(decl) \/ decl[a + 6] = " ")

\* The declaration has the letters p, u, b, l, i, c in a row, in either case.
PublicLetters ==
    << {"p", "P"}, {"u", "U"}, {"b", "B"}, {"l", "L"}, {"i", "I"}, {"c", "C"} >>

HasPublicLetters(decl) ==
    \E a \in 1..Len(decl) :
        /\ a + 5 <= Len(decl)
        /\ \A k \in 1..6 : decl[a + k - 1] \in PublicLetters[k]

\* The declarations of the section with the lines that show them.
ShownMembers ==
    UNION { {<<classes[i].fields[k], uml_code[HeaderPos(i) + k]>> :
                k \in 1..Len(classes[i].fields)}
            \cup
            {<<classes[i].methods[k],
               uml_code[HeaderPos(i) + Len(classes[i].fields) + 1 + k]>> :
                k \in 1..Len(classes[i].methods)} :
            i \in DOMAIN classes }

\* C15 as stated: the marker is "+" exactly when the declaration has the
\* modifier word "public", and "-" otherwise.
C15_PublicTokenMarksPublic ==
    SectionBuilt =>
        \A m \in ShownMembers :
            m[2] = "  " \o (IF HasPublicToken(m[1]) THEN "+" ELSE "-") \o Text(m[1])

\* C15 (amended): the marker is "+" exactly when the declaration contains
\* the letters "public" in a row, anywhere and in either case, and "-"
\* otherwise.
C15_PublicLettersMarkPublic ==
    SectionBuilt =>
        \A m \in ShownMembers :
            m[2] = "  " \o (IF HasPublicLetters(m[1]) THEN "+" ELSE "-") \o Text(m[1])

\* Declarations with "PUBLIC" in capitals, with "public" inside "Republic",
\* with the modifier itself and with none of these, all shown.
C15_Witness ==
    /\ SectionBuilt
    /\ \E m \in ShownMembers : m[2] = "  +PUBLIC static int LIMIT"
    /\ \E m \in ShownMembers : m[2] = "  +private Republic home"
    /\ \E m \in ShownMembers : m[2] = "  +public void ship()"
    /\ \E m \in ShownMembers : m[2] = "  -protected void close()"

IsInterface(c) == "is_interface" \in DOMAIN c /\ c.is_interface

IsAbstract(c) == "is_abstract" \in DOMAIN c /\ c.is_abstract

TagsOf(c) ==
    CASE IsInterface(c) /\ IsAbstract(c) -> " <<interface,abstract>>"
      [] IsInterface(c) /\ ~IsAbstract(c) -> " <<interface>>"
      [] ~IsInterface(c) /\ IsAbstract(c) -> " <<abstract>>"
      [] OTHER -> ""

AllTags ==
    {"", " <<interface>>", " <<abstract>>", " <<interface,abstract>>",
     " <<abstract,interface>>", " <<>>"}

\* C16: the header of a class carries tags only when the class is an
\* interface or abstract, "interface" before "abstract" when it is both,
\* and is "class <Name> {" when it is neither.
C16_StereotypeTags ==
    SectionBuilt =>
        \A i \in DOMAIN classes :
            \A tags \in AllTags :
                LinePositions("\nclass " \o classes[i].name \o tags \o " {") # {}
                    <=> tags = TagsOf(classes[i])

\* An interface that is abstract too, a class with neither attribute and an
\* abstract class.
C16_Witness ==
    /\ SectionBuilt
    /\ Len(classes) = 3
    /\ LinePositions("\nclass Order <<interface,abstract>> {") # {}
    /\ LinePositions("\nclass SqlStore {") # {}
    /\ "is_abstract" \notin DOMAIN classes[2]
    /\ LinePositions("\nclass Invoice <<abstract>> {") # {}

HasDescription(c) == "description" \in DOMAIN c /\ c.description # ""

\* C17: a class with a description has a note "note right of <Name>" ...
\* "end note" after its block, and a class without one has no note.
C17_DescriptionNote ==
    SectionBuilt =>
        \A i \in DOMAIN classes :
            LET opening == LinePositions("note right of " \o classes[i].name)
            IN  IF HasDescription(classes[i])
                THEN \E k \in opening :
                        /\ k > HeaderPos(i)
                        /\ \E e \in LinePositions("end note") : e > k
                ELSE opening = {}

----------------------------------------------------------------------------
(* The renderer (Spec).                                                    *)

\* C19: when the renderer fails, the caller still obtains the diagram text
\* that was built.
C19_TextSurvivesRendererFailure ==
    (plantuml_runs = 1 /\ result.kind = "raise")
        => result.diagram_code = Join(diagram, "\n")

----------------------------------------------------------------------------
(* Concurrent extractions (SpecConcurrent).                                *)

\* The trace a request yields when it runs alone.
TraceAlone(parsed, name) ==
    IF parsed.outcome # "tree" THEN <<>>
    ELSE LET sel == SelectMethod(parsed.tree, name)
         IN  IF sel.found
             THEN _analyze_method_body(sel.method, sel.class_name, <<>>)
             ELSE <<>>

\* What a request hands back when it runs alone.
ResultAlone(parsed, name, render) ==
    IF parsed.outcome # "tree"
    THEN Raised("Exception", "Java syntax error: " \o parsed.error)
    ELSE IF ~SelectMethod(parsed.tree, name).found
    THEN MethodNotFoundError(name)
    ELSE IF TraceAlone(parsed, name) = <<>>
    THEN EmptyTraceError
    ELSE Rendered(Join(DiagramLines(TraceAlone(parsed, name)), "\n"), render)

Finished(t) == threads[t].pc = "done"

----------------------------------------------------------------------------
(* Errors of analyze_method_calls (Spec).                                  *)

\* The messages of the generator into which the requested method name is
\* interpolated.  No message has the identity of a file: the request is a
\* source text and a method name.
MessagesNaming(name) ==
    {NotFoundMessage(name), AnalyzePrefix \o NotFoundMessage(name)}

\* C21: every error analyze_method_calls raises names the requested method
\* (and the file analyzed).
C21_ErrorsNameTheRequest ==
    result.kind = "raise" => result.message \in MessagesNaming(method_name)

\* The messages that carry the output the renderer wrote.
MessagesWithDiagnostic ==
    {prefix \o "Failed to run PlantUML: " \o ProcessErrorText
        \o "\nOutput: " \o ProcessOutput : prefix \in {"", AnalyzePrefix}}

\* C22: a request whose renderer run fails fails with an error that carries
\* the renderer's own output, and the renderer is run at most once for a
\* request.
C22_RenderErrorCarriesDiagnosticNoRetry ==
    /\ plantuml_runs <= 1
    /\ (plantuml_runs = 1 /\ result.kind = "raise")
            => result.message \in MessagesWithDiagnostic

ParserRejected == code.outcome \in {"JavaSyntaxError", "LexerError"}

\* C23: a source the parser rejects fails with an error of a kind of its
\* own, other than the kinds of the not-found, empty-trace and renderer
\* errors, and no method is sought, no text built, the renderer not run.
C23_SyntaxErrorIsDistinctKind ==
    (ParserRejected /\ result.kind # "none") =>
        /\ result.kind = "raise"
        /\ method_node = NoMethodNode
        /\ diagram = <<>>
        /\ plantuml_runs = 0
        /\ result.exc_type \notin
                {MethodNotFoundError(method_name).exc_type,
                 EmptyTraceError.exc_type,
                 Rendered("", "CalledProcessError").exc_type,
                 Rendered("", "no_png").exc_type}

----------------------------------------------------------------------------
(* Arguments the walk does not recognize (SpecWalk).                       *)

\* An argument that is neither a literal nor a member reference.
Unrecognized(arg) == arg.type \notin {"Literal", "MemberReference"}

HasUnrecognized(call) ==
    \E k \in DOMAIN call.arguments : Unrecognized(call.arguments[k])

\* C24: an argument of an unrecognized shape does not end the walk: the
\* walk returns, the invocation with that argument has its event, with a
\* rendering for each recognized argument and at most one for each other,
\* and every later invocation has its event too.
C24_UnrecognizedArgumentKeepsWalk ==
    \A i \in DOMAIN BodyCalls :
        (result.kind # "none" /\ HasUnrecognized(BodyCalls[i])) =>
            /\ result.kind = "return"
            /\ Len(interactions) = Len(BodyCalls)
            /\ interactions[i].message = BodyCalls[i].member
            /\ Len(interactions[i].arguments) <= Len(BodyCalls[i].arguments)
            /\ \A k \in DOMAIN BodyCalls[i].arguments :
                    BodyCalls[i].arguments[k].type = "Literal" =>
                        \E a \in DOMAIN interactions[i].arguments :
                            interactions[i].arguments[a] = BodyCalls[i].arguments[k].value
            /\ \A j \in (i + 1)..Len(BodyCalls) :
                    interactions[j].message = BodyCalls[j].member

\* repo.probe(x + 1, 1) followed by done(): both events, the first with the
\* fallback text of the sum and the literal after it.
C24_Witness ==
    /\ result.kind = "return"
    /\ Len(method_node.body) = 2
    /\ Len(interactions) = 2
    /\ interactions[1].message = "probe"
    /\ BodyCalls[1].arguments = <<SumX1, Lit1>>
    /\ interactions[1].arguments = <<"BinaryOperation", "1">>
    /\ interactions[2].message = "done"

----------------------------------------------------------------------------
(* Relationship edges of the structural document (SpecUml).                *)

\* The lines after the last block and before the footer.
EdgeLinePositions == (LastBlockLine + 1)..(Len(uml_code) - 1)

\* The names a descriptor points to.
TargetsOf(c) ==
    (IF ExtendsSet(c) THEN {c.extends} ELSE {})
        \cup {c.implements[k] : k \in DOMAIN c.implements}

DeclaredNames == {classes[i].name : i \in DOMAIN classes}

\* C25: the left side of every edge is a class with a block in the same
\* document; the right side is the name the descriptor gives, emitted also
\* when no class of the section has that name.
C25_EdgeFromDeclaredToVerbatim ==
    SectionBuilt =>
        /\ \A k \in EdgeLinePositions :
            \E i \in DOMAIN classes, arrow \in {" --|> ", " ..|> "} :
                \E to \in TargetsOf(classes[i]) :
                    /\ uml_code[k] = classes[i].name \o arrow \o to
                    /\ LinePositions(HeaderAt(i)) # {}
                    /\ HeaderPos(i) < k
        /\ \A i \in DOMAIN classes :
            \A to \in TargetsOf(classes[i]) :
                \E k \in EdgeLinePositions, arrow \in {" --|> ", " ..|> "} :
                    uml_code[k] = classes[i].name \o arrow \o to

\* The class SqlStore extends Base and implements Store, and the section
\* declares neither Base nor Store.
C25_Witness ==
    /\ SectionBuilt
    /\ Len(classes) = 2
    /\ "Base" \notin DeclaredNames
    /\ "Store" \notin DeclaredNames
    /\ LinePositions("\nclass SqlStore <<abstract>> {") # {}
    /\ \E k \in EdgeLinePositions : uml_code[k] = "SqlStore --|> Base"
    /\ \E k \in EdgeLinePositions : uml_code[k] = "SqlStore ..|> Store"

----------------------------------------------------------------------------
(* The frame of both documents (SpecDocuments).                            *)

\* The lines of the behavioral document that declare a participant and
\* those that show an interaction.
ParticipantPositions ==
    {k \in DOMAIN diagram :
        \E i \in DOMAIN interactions :
            \/ diagram[k] = "participant \"" \o interactions[i].from
                                \o "\" as " \o interactions[i].from
            \/ diagram[k] = "participant \"" \o interactions[i].to
                                \o "\" as " \o interactions[i].to}

InteractionPositions ==
    {k \in DOMAIN diagram :
        \E i \in DOMAIN interactions :
            \E tail \in {"", "(" \o Join(interactions[i].arguments, ", ") \o ")"} :
                diagram[k] = interactions[i].from \o " -> " \o interactions[i].to
                                \o ": " \o interactions[i].message \o tail}

\* The lines of the structural document that belong to a block.
BlockPositions ==
    {k \in DOMAIN uml_code :
        \/ uml_code[k] = "}"
        \/ \E i \in DOMAIN classes :
                \/ uml_code[k] = HeaderAt(i)
                \/ uml_code[k] = PackageOpener(DescriptorPackage(classes[i]))}

EdgePositions ==
    {k \in DOMAIN uml_code :
        \E e \in DOMAIN ExpectedEdges : uml_code[k] = ExpectedEdges[e]}

\* C26: each document opens with its constant preamble, "@startuml" first,
\* and closes with "@enduml"; in a behavioral document the participants
\* come before the interactions, in a structural one the blocks before the
\* edges.
C26_PreambleBodyFooter ==
    /\ diagram # <<>> =>
        /\ SubSeq(diagram, 1, 11) =
            << "@startuml",
               "skinparam sequenceMessageAlign center",
               "skinparam responseMessageBelowArrow true",
               "skinparam maxMessageSize 100",
               "skinparam sequence {",
               "    ArrowColor DeepSkyBlue",
               "    LifeLineBorderColor blue",
               "    ParticipantBorderColor DarkBlue",
               "    ParticipantBackgroundColor LightBlue",
               "    ParticipantFontStyle bold",
               "}" >>
        /\ diagram[Len(diagram)] = "@enduml"
        /\ ParticipantPositions # {}
        /\ InteractionPositions # {}
        /\ ParticipantPositions \cup InteractionPositions = 12..(Len(diagram) - 1)
        /\ \A p \in ParticipantPositions, q \in InteractionPositions : p < q
    /\ uml_code # <<>> =>
        /\ uml_code[1] = "@startuml"
        /\ SubSeq(uml_code, 1, 18) = UmlHeader
        /\ uml_code[Len(uml_code)] = "@enduml"
        /\ \A k \in 1..(Len(uml_code) - 1) : uml_code[k] # "@enduml"
        /\ \A b \in BlockPositions, e \in EdgePositions : 18 < b /\ b < e

\* A behavioral document of two participants and one interaction.
C26_Witness ==
    /\ result.kind = "return"
    /\ Len(interactions) = 1
    /\ Cardinality(ParticipantPositions) = 2
    /\ Cardinality(InteractionPositions) = 1
    /\ Len(diagram) = 15
    /\ diagram[12] = "participant \"Controller\" as Controller"
    /\ diagram[13] = "participant \"repo\" as repo"

----------------------------------------------------------------------------
(* One generator, many requests (SpecRepeat).                              *)

\* The root class of a request that runs alone.
RootAlone(parsed, name) ==
    IF parsed.outcome = "tree" /\ SelectMethod(parsed.tree, name).found
    THEN SelectMethod(parsed.tree, name).class_name
    ELSE NoneValue

----------------------------------------------------------------------------
(* The source of every event (Spec).                                       *)

\* C29: every event of a trace has the root class, the class that declares
\* the selected method, as its source; a document produced declares the root
\* class as a participant and every interaction line starts with it.
C29_EverySourceIsRootClass ==
    (Answered /\ MatchingPairs # {}) =>
        /\ \A i \in DOMAIN interactions :
                interactions[i].from = code.tree.types[FirstPair[1]].name
        /\ diagram # <<>> =>
            LET root == code.tree.types[FirstPair[1]].name
                first == Len(diagram) - Len(interactions)
            IN  /\ \E k \in 12..(first - 1) :
                        diagram[k] = "participant \"" \o root \o "\" as " \o root
                /\ \A i \in DOMAIN interactions :
                        diagram[first + i - 1]
                            = root \o " -> " \o interactions[i].to \o ": "
                                \o interactions[i].message
                                \o (IF interactions[i].arguments = <<>> THEN ""
                                    ELSE "(" \o Join(interactions[i].arguments, ", ")
                                            \o ")")

\* The second class declares the method, whose call has the qualifier repo:
\* the line starts with the declaring class.
C29_Witness ==
    /\ Answered
    /\ result.kind = "return"
    /\ Len(code.tree.types) = 2
    /\ FirstPair = <<2, 2>>
    /\ current_class = "Repo"
    /\ interactions[1].from = "Repo"
    /\ interactions[1].to = "repo"
    /\ diagram[12] = "participant \"Repo\" as Repo"
    /\ diagram[14] = "Repo -> repo: step2_2"

----------------------------------------------------------------------------
(* LegacyTableAnalyzer (src/analyzers/legacy_table_analyzer.py) inside the  *)
(* file loop of app.py.  A table name and the value of a string literal are *)
(* sequences of characters, so that upper(), startswith() and the substring *)
(* test are computed.  A path is the sequence of its components between    *)
(* the '/' separators.                                                     *)

\* str.upper(), character by character.
Upper(chars) ==
    LET UpperChar(c) ==
            CASE c = "a" -> "A" [] c = "b" -> "B" [] c = "c" -> "C" [] c = "d" -> "D"
              [] c = "e" -> "E" [] c = "f" -> "F" [] c = "g" -> "G" [] c = "h" -> "H"
              [] c = "i" -> "I" [] c = "j" -> "J" [] c = "k" -> "K" [] c = "l" -> "L"
              [] c = "m" -> "M" [] c = "n" -> "N" [] c = "o" -> "O" [] c = "p" -> "P"
              [] c = "q" -> "Q" [] c = "r" -> "R" [] c = "s" -> "S" [] c = "t" -> "T"
              [] c = "u" -> "U" [] c = "v" -> "V" [] c = "w" -> "W" [] c = "x" -> "X"
              [] c = "y" -> "Y" [] c = "z" -> "Z"
              [] OTHER -> c
    IN  [i \in DOMAIN chars |-> UpperChar(chars[i])]

\* chars.startswith(prefix)
StartsWith(chars, prefix) ==
    /\ Len(prefix) <= Len(chars)
    /\ \A k \in 1..Len(prefix) : chars[k] = prefix[k]

\* self.legacy_systems, in the order the dict was written.
legacy_systems ==
    <<
       [system |-> "CRPS", tables |-> <<
            << "C", "R", "P", "S", "_", "C", "U", "S", "T", "O", "M", "E", "R" >>,
            << "C", "R", "P", "S", "_", "A", "C", "C", "O", "U", "N", "T" >>,
            << "C", "R", "P", "S", "_", "P", "O", "R", "T", "F", "O", "L", "I",
               "O" >> >>],
       [system |-> "CRIF", tables |-> <<
            << "C", "R", "I", "F", "_", "M", "E", "M", "B", "E", "R" >>,
            << "C", "R", "I", "F", "_", "R", "E", "C", "O", "R", "D" >>,
            << "C", "R", "I", "F", "_", "H", "I", "S", "T", "O", "R", "Y" >> >>],
       [system |-> "GNAT", tables |-> <<
            << "G", "N", "A", "T", "_", "N", "A", "M", "E" >>,
            << "G", "N", "A", "T", "_", "A", "D", "D", "R", "E", "S", "S" >>,
            << "G", "N", "A", "T", "_", "T", "E", "L", "E", "P", "H", "O", "N",
               "E" >> >>],
       [system |-> "Globestar", tables |-> <<
            << "G", "L", "O", "B", "E", "S", "T", "A", "R", "_", "T", "R", "A",
               "N", "S", "A", "C", "T", "I", "O", "N" >>,
            << "G", "L", "O", "B", "E", "S", "T", "A", "R", "_", "A", "C", "C",
               "O", "U", "N", "T" >> >>],
       [system |-> "Triumph", tables |-> <<
            << "T", "R", "I", "U", "M", "P", "H", "_", "D", "A", "T", "A" >>,
            << "T", "R", "I", "U", "M", "P", "H", "_", "H", "I", "S", "T", "O",
               "R", "Y" >> >>],
       [system |-> "CARS", tables |-> <<
            << "C", "A", "R", "S", "_", "R", "E", "C", "O", "R", "D" >>,
            << "C", "A", "R", "S", "_", "T", "R", "A", "N", "S", "A", "C", "T",
               "I", "O", "N" >> >>],
       [system |-> "MNS", tables |-> <<
            << "M", "N", "S", "_", "N", "O", "T", "I", "F", "I", "C", "A", "T",
               "I", "O", "N" >>,
            << "M", "N", "S", "_", "T", "E", "M", "P", "L", "A", "T", "E" >> >>],
       [system |-> "CARE", tables |-> <<
            << "C", "A", "R", "E", "_", "C", "A", "S", "E" >>,
            << "C", "A", "R", "E", "_", "I", "N", "T", "E", "R", "A", "C", "T",
               "I", "O", "N" >> >>]
    >>

LegacyTableUsage(table_name, system, file_path, class_name, method, usage_type) ==
    [table_name |-> table_name, system |-> system, file_path |-> file_path,
     class_name |-> class_name, method_name |-> method,
     usage_type |-> usage_type]

\* The value of a string literal is the token's text, quotes included.
StringLiteral(chars) == Literal(<< "\"" >> \o chars \o << "\"" >>)

ElementValuePair(n, v) == [type |-> "ElementValuePair", name |-> n, value |-> v]

\* "element" is None for an annotation without parentheses (the empty
\* sequence here, the code tests its truth only), else its name = value pairs.
Annotation(n, elem) == [type |-> "Annotation", name |-> n, element |-> elem]

\* A class declaration with the attributes this analyzer reads.
AnnotatedClass(n, anns, ms) ==
    [type |-> "ClassDeclaration", name |-> n, annotations |-> anns,
     methods |-> ms]

\* The first system one of whose tables the name starts with, else "".
_get_system_for_table(table_name) ==
    LET hits == {i \in DOMAIN legacy_systems :
                    \E j \in DOMAIN legacy_systems[i].tables :
                        StartsWith(table_name, legacy_systems[i].tables[j])}
    IN  IF hits = {} THEN ""
        ELSE legacy_systems[CHOOSE i \in hits : \A h \in hits : i <= h].system

_add_table_usageAnySystem(usages, table_name, file_path, class_name, method, usage_type) ==
    Append(usages, LegacyTableUsage(table_name, _get_system_for_table(table_name),
                                    file_path, class_name, method, usage_type))

\* A usage is recorded only for a name that belongs to a system.
_add_table_usage(usages, table_name, file_path, class_name, method, usage_type) ==
    LET system == _get_system_for_table(table_name)
    IN  IF system # ""
        THEN Append(usages, LegacyTableUsage(table_name, system, file_path,
                                             class_name, method, usage_type))
        ELSE usages

\* "SELECT" if "SELECT" in sql else "Other", overridden by "JOIN".
UsageType(sql) ==
    IF Contains(sql, << "J", "O", "I", "N" >>) THEN "JOIN"
    ELSE IF Contains(sql, << "S", "E", "L", "E", "C", "T" >>) THEN "SELECT"
    ELSE "Other"

\* One usage for every table whose name occurs in the text, in dict order.
RECURSIVE AddTables(_, _, _, _, _, _)
AddTables(usages, tables, sql, file_path, class_name, method) ==
    IF tables = <<>> THEN usages
    ELSE AddTables(
            IF Contains(sql, Head(tables))
            THEN _add_table_usage(usages, Head(tables), file_path, class_name,
                                  method, UsageType(sql))
            ELSE usages,
            Tail(tables), sql, file_path, class_name, method)

_check_sql_for_tables(usages, sql, file_path, class_name, method) ==
    AddTables(usages,
              Flatten([i \in DOMAIN legacy_systems |-> legacy_systems[i].tables]),
              sql, file_path, class_name, method)

\* How a private step ended: the list as it left it, and whether it raised.
Step(usages, raised) == [table_usages |-> usages, raised |-> raised]

\* The string literals below every method of every class, in loop and walk
\* order, with the class and the method they are attributed to.
SqlCandidates(tree) ==
    LET cls == Filter(tree, "ClassDeclaration")
        StringNodes(c, m) ==
            LET lits == Filter(m, "Literal")
            IN  [i \in DOMAIN lits |->
                    [class_name |-> c.name, method_name |-> m.name,
                     value |-> lits[i].value]]
    IN  Flatten([i \in DOMAIN cls |->
            Flatten([j \in DOMAIN cls[i].methods |->
                StringNodes(cls[i], cls[i].methods[j])])])

RECURSIVE CheckEach(_, _, _)
CheckEach(usages, cands, file_path) ==
    IF cands = <<>> THEN usages
    ELSE CheckEach(_check_sql_for_tables(usages, Upper(Head(cands).value),
                                         file_path, Head(cands).class_name,
                                         Head(cands).method_name),
                   Tail(cands), file_path)

\* The attribute javalang.tree.String is looked up when the first method of
\* the first class with methods is reached.  javalang.tree defines no such
\* class (string literals are Literal nodes), so the lookup raises
\* AttributeError; has_string_class is TRUE for a library in which the name
\* resolves to the node class of string literals.
_analyze_sql_queries(usages, tree, file_path, has_string_class) ==
    LET cls == Filter(tree, "ClassDeclaration")
    IN  IF \A i \in DOMAIN cls : cls[i].methods = <<>>
        THEN Step(usages, FALSE)
        ELSE IF ~has_string_class
        THEN Step(usages, TRUE)
        ELSE Step(CheckEach(usages, SqlCandidates(tree), file_path), FALSE)

\* any(a.name == annotation_name for a in annotations if hasattr(a, 'name'))
_has_annotation(annotations, annotation_name) ==
    \E i \in DOMAIN annotations :
        /\ "name" \in DOMAIN annotations[i]
        /\ annotations[i].name = annotation_name

\* elem.value.value of the first pair called name: AttributeError when the
\* pair's value is no literal.  A literal's value is never empty.
_get_table_name_from_annotation(annotations) ==
    LET tabs == SelectSeq(annotations, LAMBDA a : a.name = "Table")
        pairs == SelectSeq(Flatten([i \in DOMAIN tabs |-> tabs[i].element]),
                           LAMBDA e : e.name = "name")
    IN  IF pairs = <<>> THEN [value |-> <<>>, raised |-> FALSE]
        ELSE IF "value" \in DOMAIN pairs[1].value
        THEN [value |-> pairs[1].value.value, raised |-> FALSE]
        ELSE [value |-> <<>>, raised |-> TRUE]

RECURSIVE EntityEach(_, _, _)
EntityEach(usages, cls, file_path) ==
    IF cls = <<>> THEN Step(usages, FALSE)
    ELSE IF ~_has_annotation(Head(cls).annotations, "Entity")
    THEN EntityEach(usages, Tail(cls), file_path)
    ELSE LET table_name == _get_table_name_from_annotation(Head(cls).annotations)
         IN  IF table_name.raised THEN Step(usages, TRUE)
             ELSE IF table_name.value = <<>>
             THEN EntityEach(usages, Tail(cls), file_path)
             ELSE EntityEach(_add_table_usage(usages, table_name.value, file_path,
                                              Head(cls).name, "Entity Class",
                                              "JPA Entity"),
                             Tail(cls), file_path)

_analyze_entity_annotations(usages, tree, file_path) ==
    EntityEach(usages, Filter(tree, "ClassDeclaration"), file_path)

analyze_codeNoHandler(usages, file_path, parsed, has_string_class) ==
    IF parsed.outcome # "tree"
    THEN [table_usages |-> usages, printed |-> FALSE, raised |-> TRUE]
    ELSE LET sql == _analyze_sql_queries(usages, parsed.tree, file_path,
                                         has_string_class)
         IN  IF sql.raised
             THEN [table_usages |-> sql.table_usages, printed |-> FALSE,
                   raised |-> TRUE]
             ELSE LET ent == _analyze_entity_annotations(sql.table_usages,
                                                         parsed.tree, file_path)
                  IN  [table_usages |-> ent.table_usages, printed |-> FALSE,
                       raised |-> ent.raised]

\* try: parse, SQL pass, entity pass; except Exception: print.  What a pass
\* appended before it raised stays in the list.  The result is the list,
\* whether the handler printed, and whether an exception left the method.
analyze_code(usages, file_path, parsed, has_string_class) ==
    IF parsed.outcome # "tree"
    THEN [table_usages |-> usages, printed |-> TRUE, raised |-> FALSE]
    ELSE LET sql == _analyze_sql_queries(usages, parsed.tree, file_path,
                                         has_string_class)
         IN  IF sql.raised
             THEN [table_usages |-> sql.table_usages, printed |-> TRUE,
                   raised |-> FALSE]
             ELSE LET ent == _analyze_entity_annotations(sql.table_usages,
                                                         parsed.tree, file_path)
                  IN  [table_usages |-> ent.table_usages, printed |-> ent.raised,
                       raised |-> FALSE]

\* The usages grouped by system.
get_usage_summary(usages) ==
    [s \in {usages[i].system : i \in DOMAIN usages} |->
        SelectSeq(usages, LAMBDA u : u.system = s)]

\* One entry per table of every system: its name, the number of usages
\* whose table_name equals it, and the first path components of their files.
TableInfo(usages, system, table) ==
    LET own == SelectSeq(usages, LAMBDA u : u.table_name = table)
    IN  [name |-> table,
         description |-> "Legacy table from " \o system \o " system",
         usage_count |-> Len(own),
         used_by |-> {own[i].file_path[1] : i \in DOMAIN own}]

get_legacy_tables(usages) ==
    [i \in DOMAIN legacy_systems |->
        [system |-> legacy_systems[i].system,
         tables |-> [j \in DOMAIN legacy_systems[i].tables |->
                        TableInfo(usages, legacy_systems[i].system,
                                  legacy_systems[i].tables[j])]]]

----------------------------------------------------------------------------
(* SpecBatch: one uploaded project, its files analyzed in order by one     *)
(* LegacyTableAnalyzer.                                                    *)

MaxFiles == 3

\* extract_project's temporary directory.
ProjectPath == << "", "tmp", "project" >>

SelectAccount ==
    << "s", "e", "l", "e", "c", "t", " ", "*", " ", "f", "r", "o",
       "m", " ", "c", "r", "p", "s", "_", "a", "c", "c", "o", "u",
       "n", "t" >>

JoinAccountMember ==
    << "C", "R", "P", "S", "_", "A", "C", "C", "O", "U", "N", "T",
       " ", "a", " ", "j", "o", "i", "n", " ", "C", "R", "I", "F",
       "_", "M", "E", "M", "B", "E", "R", " ", "m" >>

UpdateName ==
    << "u", "p", "d", "a", "t", "e", " ", "G", "N", "A", "T", "_",
       "N", "A", "M", "E", " ", "s", "e", "t", " ", "x" >>

QueryCall(sql) ==
    StatementExpression(
        MethodInvocation("jdbc", "query", << StringLiteral(sql) >>, <<>>))

SampleFiles ==
    { [path |-> << "orders", "OrderDao.java" >>, source |->
        ParsedTree(CompilationUnit(<<
            AnnotatedClass("OrderDao", <<>>,
                << MethodDeclaration("find", TRUE, << QueryCall(SelectAccount) >>) >>) >>))],
      [path |-> << "orders", "Broken.java" >>, source |->
        SyntaxFailure],
      [path |-> << "members", "Unreadable.java" >>, source |->
        LexerFailure],
      [path |-> << "members", "MemberDao.java" >>, source |->
        ParsedTree(CompilationUnit(<<
            AnnotatedClass("MemberDao", << Annotation("Repository", <<>>) >>,
                << MethodDeclaration("join", TRUE, << QueryCall(JoinAccountMember) >>),
                   MethodDeclaration("rename", TRUE, << QueryCall(UpdateName) >>) >>) >>))],
      [path |-> << "customers", "Customer.java" >>, source |->
        ParsedTree(CompilationUnit(<<
            AnnotatedClass("Customer",
                << Annotation("Entity", <<>>),
                   Annotation("Table",
                        << ElementValuePair("name", StringLiteral(
                            << "C", "R", "P", "S", "_", "C", "U", "S", "T", "O", "M", "E",
       "R", "_", "V", "2" >>)) >>) >>,
                <<>>) >>))],
      [path |-> << "customers", "Account.java" >>, source |->
        ParsedTree(CompilationUnit(<<
            AnnotatedClass("Account",
                << Annotation("Entity", <<>>),
                   Annotation("Table",
                        << ElementValuePair("name", MemberReference("ACCOUNT")) >>) >>,
                <<>>) >>))] }

\* The analyzers are made and the project's Java files are listed.
AnalyzeProject ==
    /\ ~batch.started
    /\ \E fs \in SeqUpTo(SampleFiles, MaxFiles), has_string_class \in BOOLEAN :
            batch' = [started |-> TRUE, files |-> fs, next |-> 1,
                      has_string_class |-> has_string_class,
                      printed |-> <<>>, halted |-> FALSE]
    /\ table_usages' = <<>>
    /\ UNCHANGED <<code, method_name, interactions, current_class, method_node,
                 diagram, plantuml_runs, result, remembered, classes, uml_code,
                 generators, threads>>

\* One turn of the loop over java_files: an exception that leaves
\* analyze_code ends the loop.
AnalyzeFile ==
    /\ batch.started
    /\ ~batch.halted
    /\ batch.next <= Len(batch.files)
    /\ LET file == batch.files[batch.next]
           file_path == ProjectPath \o file.path
           done == analyze_code(table_usages, file_path, file.source,
                                batch.has_string_class)
       IN  /\ table_usages' = done.table_usages
           /\ batch' = [batch EXCEPT
                    !.next = IF done.raised THEN @ ELSE @ + 1,
                    !.halted = done.raised,
                    !.printed = IF done.printed THEN Append(@, file_path) ELSE @]
    /\ UNCHANGED <<code, method_name, interactions, current_class, method_node,
                 diagram, plantuml_runs, result, remembered, classes, uml_code,
                 generators, threads>>

NextBatch == AnalyzeProject \/ AnalyzeFile

SpecBatch == Init /\ [][NextBatch]_vars

----------------------------------------------------------------------------
(* Properties of the file loop and of the usage reports (SpecBatch).       *)

\* The usages a file yields when it is the only file analyzed; none when it
\* does not parse.
UsagesAlone(file) ==
    IF file.source.outcome = "tree"
    THEN analyze_code(<<>>, ProjectPath \o file.path, file.source,
                      batch.has_string_class).table_usages
    ELSE <<>>

Unparsed(file) == file.source.outcome # "tree"

\* C28: a file that fails to parse is skipped without halting the loop:
\* analyze_code does not raise on it and leaves table_usages as it was, the
\* usages recorded at any moment being exactly those the files analyzed so
\* far yield on their own, in file order.
C28_ParseFailureSkipsFile ==
    batch.started =>
        /\ ~batch.halted
        /\ batch.next \in 1..(Len(batch.files) + 1)
        /\ table_usages
            = Flatten([i \in 1..(batch.next - 1) |-> UsagesAlone(batch.files[i])])
        /\ \A i \in 1..(batch.next - 1) :
                Unparsed(batch.files[i]) =>
                    \E k \in DOMAIN batch.printed :
                        batch.printed[k] = ProjectPath \o batch.files[i].path

\* Three files analyzed, the second with a syntax error: one usage from the
\* file before it and three from the file after it.
C28_Witness ==
    /\ batch.started
    /\ Len(batch.files) = 3
    /\ batch.next = 4
    /\ batch.files[1].path = << "orders", "OrderDao.java" >>
    /\ batch.files[2].source = SyntaxFailure
    /\ batch.files[3].path = << "members", "MemberDao.java" >>
    /\ Len(table_usages) = 4
    /\ table_usages[1].file_path[5] = "OrderDao.java"
    /\ table_usages[2].file_path[5] = "MemberDao.java"

RECURSIVE SumOf(_)
SumOf(ns) == IF ns = <<>> THEN 0 ELSE Head(ns) + SumOf(Tail(ns))

\* The usage_count of every listed table, system by system.
UsageCounts ==
    LET stats == get_legacy_tables(table_usages)
    IN  Flatten([i \in DOMAIN stats |->
            [j \in DOMAIN stats[i].tables |-> stats[i].tables[j].usage_count]])

\* Where the reports list a usage: the (system, table) positions of
\* get_legacy_tables whose entry has the usage's table name.
ListedAt(usage) ==
    LET stats == get_legacy_tables(table_usages)
    IN  UNION {{<<i, j>> : j \in {k \in DOMAIN stats[i].tables :
                                    stats[i].tables[k].name = usage.table_name}} :
               i \in DOMAIN stats}

\* C30: every recorded usage is counted exactly once by get_legacy_tables:
\* its table is listed once, under the usage's system, and the usage_count
\* values add up to the number of recorded usages, as do the sizes of the
\* groups of get_usage_summary.
C30_EveryUsageCountedOnce ==
    LET stats == get_legacy_tables(table_usages)
        summary == get_usage_summary(table_usages)
        systems == {table_usages[i].system : i \in DOMAIN table_usages}
    IN  /\ \A i \in DOMAIN table_usages :
            /\ Cardinality(ListedAt(table_usages[i])) = 1
            /\ \A p \in ListedAt(table_usages[i]) :
                    /\ stats[p[1]].system = table_usages[i].system
                    /\ stats[p[1]].tables[p[2]].usage_count >= 1
        /\ SumOf(UsageCounts) = Len(table_usages)
        /\ DOMAIN summary = systems
        /\ systems \subseteq {legacy_systems[k].system : k \in DOMAIN legacy_systems}
        /\ SumOf([k \in DOMAIN legacy_systems |->
                    IF legacy_systems[k].system \in systems
                    THEN Len(summary[legacy_systems[k].system])
                    ELSE 0])
            = Len(table_usages)

\* Two files that use CRPS_ACCOUNT and a file of entities between them:
\* the table is counted twice under CRPS, CRIF_MEMBER and GNAT_NAME once.
C30_Witness ==
    /\ Len(table_usages) = 4
    /\ batch.next = 4
    /\ batch.files[2].path = << "customers", "Customer.java" >>
    /\ get_legacy_tables(table_usages)[1].system = "CRPS"
    /\ get_legacy_tables(table_usages)[1].tables[2].usage_count = 2
    /\ get_legacy_tables(table_usages)[2].tables[1].usage_count = 1
    /\ get_legacy_tables(table_usages)[3].tables[1].usage_count = 1
    /\ Len(get_usage_summary(table_usages)["CRPS"]) = 2

====
